---- MODULE Spec2Model ----
(***************************************************************************)
(* Haunti compute network: the GPU bin-packing scheduler                   *)
(* (compute-network/scheduler/src/bin_packing.rs), the node's task manager *)
(* (compute-network/node/src/task_manager.rs) and the fault detector       *)
(* (compute-network/scheduler/src/fault_detector.rs).                      *)
(*                                                                         *)
(* The three components share no state in the source; each has its own     *)
(* variables, initial condition, next-state relation and specification     *)
(* (SpecSched, SpecTM, SpecFD, SpecFDFlood).                               *)
(***************************************************************************)
EXTENDS Integers, Sequences, FiniteSets, Bags, TLC

VARIABLES
    \* bin_packing.rs: ResourceScheduler
    gpu_pool,            \* HashMap<String, GpuResource>
    current_strategy,    \* &'static str
    sched_last,          \* the last scheduler call and what it returned
    \* task_manager.rs: TaskManager
    pending_queue,       \* BinaryHeap<Arc<ComputeTask>>
    running_tasks,       \* HashMap<String, Arc<ComputeTask>>
    resource_pool,       \* ResourcePool
    now,                 \* SystemTime::now() in seconds
    placement,           \* task id -> indices of the devices start_task allocated on
    submitted,           \* task ids handed to add_task so far
    completed,           \* task ids a successful complete_task removed
    rpc_failures,        \* number of submit_result calls that failed so far
    tm_last,             \* the last task manager call and what it returned
    locks,               \* holder of each tokio lock of the TaskManager, or "free"
    tm_pc,               \* where each TaskManager operation stands between its awaits
    \* fault_detector.rs: FaultDetector
    node_registry,       \* HashMap<String, NodeHealth>
    pending_faults,      \* Vec<(FaultType, String)>
    consensus_threshold, \* u8
    instant,             \* Instant::now()
    monitor_pc,          \* position of start_monitoring's loop and its next tick
    quarantine_calls,    \* node ids quarantine_node was called with
    fd_last,             \* the last fault detector step and what it saw
    \* task_state.rs: TaskState
    task_state,          \* the TaskState account
    unix_timestamp,      \* Clock::get()?.unix_timestamp
    ts_last              \* the last TaskState call and what it returned

sched_vars == <<gpu_pool, current_strategy, sched_last>>
lock_vars == <<locks, tm_pc>>
tm_vars == <<pending_queue, running_tasks, resource_pool, now, placement, submitted,
            completed, rpc_failures, tm_last, lock_vars>>
fd_vars == <<node_registry, pending_faults, consensus_threshold, instant, monitor_pc,
            quarantine_calls, fd_last>>
ts_vars == <<task_state, unix_timestamp, ts_last>>
vars == <<sched_vars, tm_vars, fd_vars, ts_vars>>

Max(a, b) == IF a >= b THEN a ELSE b
Min(a, b) == IF a <= b THEN a ELSE b

RECURSIVE GCD(_, _)
GCD(a, b) == IF b = 0 THEN a ELSE GCD(b, a % b)

(***************************************************************************)
(* f32 values.  A finite value is an exact fraction n/d in lowest terms    *)
(* (d >= 1); NaN and +infinity are the two values with d = 0.  The device  *)
(* and task sizes below are chosen so that every quotient the scheduler    *)
(* forms is either exactly representable in f32 or separated from the      *)
(* values it is compared with by far more than one rounding step.          *)
(***************************************************************************)
NaN == [n |-> 0, d |-> 0]
PosInf == [n |-> 1, d |-> 0]
IsNaN(x) == x.d = 0 /\ x.n = 0
IsInf(x) == x.d = 0 /\ x.n = 1
Frac(n, d) == LET g == GCD(n, d) IN [n |-> n \div g, d |-> d \div g]
FNat(k) == [n |-> k, d |-> 1]

\* a as f32 / b as f32 for unsigned integers a, b
FDivNat(a, b) ==
    IF b = 0 THEN (IF a = 0 THEN NaN ELSE PosInf) ELSE Frac(a, b)

\* x + y for non-negative x, y
FAdd(x, y) ==
    IF IsNaN(x) \/ IsNaN(y) THEN NaN
    ELSE IF IsInf(x) \/ IsInf(y) THEN PosInf
    ELSE Frac(x.n * y.d + y.n * x.d, x.d * y.d)

\* x * y for non-negative x, y
FMul(x, y) ==
    IF IsNaN(x) \/ IsNaN(y) THEN NaN
    ELSE IF IsInf(x) THEN (IF y.n = 0 THEN NaN ELSE PosInf)
    ELSE IF IsInf(y) THEN (IF x.n = 0 THEN NaN ELSE PosInf)
    ELSE Frac(x.n * y.n, x.d * y.d)

\* 1.0 - x for a finite x in [0, 1], or NaN
FOneMinus(x) == IF IsNaN(x) THEN NaN ELSE Frac(x.d - x.n, x.d)

\* 1.0 / x for non-negative x
FRecip(x) ==
    IF IsNaN(x) THEN NaN
    ELSE IF IsInf(x) THEN FNat(0)
    ELSE IF x.n = 0 THEN PosInf
    ELSE Frac(x.d, x.n)

\* x > y, x >= y, x == y: every comparison with NaN is false
FGt(x, y) ==
    /\ ~IsNaN(x) /\ ~IsNaN(y)
    /\ IF IsInf(x) THEN ~IsInf(y)
       ELSE IF IsInf(y) THEN FALSE
       ELSE x.n * y.d > y.n * x.d
FEq(x, y) == ~IsNaN(x) /\ ~IsNaN(y) /\ x = y
FGe(x, y) == FGt(x, y) \/ FEq(x, y)

(***************************************************************************)
(* bin_packing.rs                                                          *)
(*                                                                         *)
(* Units: memory in blocks of 8192 MB (the tests' 32_768 is 4, 16_384 is   *)
(* 2, 8_192 is 1, 40_960 is 5); cores and bandwidth in small whole units.  *)
(***************************************************************************)
GpuIds == {"gpu1", "gpu2"}

\* String order of the device ids ("gpu1" < "gpu2")
IdRank(id) == IF id = "gpu1" THEN 1 ELSE 2

MaxMinCores == 2
MaxGpuMemory == 4

TotalMemoryChoices == {MaxGpuMemory}
UsedMemoryChoices == {0, 2}
CudaCoresChoices == {0, 4}
BandwidthChoices == {2}
RequiredMemoryChoices == {1, MaxGpuMemory + 1}
BandwidthThresholdChoices == {1, 3}

\* struct GpuResource (fp32_perf is never read)
GpuResource(id, total, used, cores, bw, fp16, util) ==
    [id |-> id, total_memory |-> total, used_memory |-> used, cuda_cores |-> cores,
     memory_bandwidth |-> bw, fp16_support |-> fp16, current_utilization |-> util]

\* struct ComputeTask of bin_packing.rs
SchedTask(req, cores, thr, fp16) ==
    [task_id |-> "task1", required_memory |-> req, min_cuda_cores |-> cores,
     bandwidth_threshold |-> thr, fp16_required |-> fp16, priority |-> 1]

\* The devices handed to add_gpu: within the bounds, idle or partly used
NewGpus ==
    { g \in { GpuResource(id, total, used, cores, bw, fp16, FNat(0)) :
                id \in GpuIds, total \in TotalMemoryChoices, used \in UsedMemoryChoices,
                cores \in CudaCoresChoices, bw \in BandwidthChoices, fp16 \in BOOLEAN } :
        g.used_memory <= g.total_memory }

\* The tasks handed to schedule_task
SchedTasks ==
    { SchedTask(req, cores, thr, fp16) :
        req \in RequiredMemoryChoices, cores \in {0, MaxMinCores},
        thr \in BandwidthThresholdChoices, fp16 \in BOOLEAN }

NoSchedTask == SchedTask(0, 0, 0, FALSE)

\* meets_task_requirements without its bandwidth test
meets_ignoring_bandwidth(gpu, task) ==
    LET memory_available == gpu.total_memory - gpu.used_memory
        cores_available == FMul(FNat(gpu.cuda_cores), FOneMinus(gpu.current_utilization))
    IN  /\ memory_available >= task.required_memory
        /\ FGe(cores_available, FNat(task.min_cuda_cores))
        /\ (~task.fp16_required \/ gpu.fp16_support)

\* meets_task_requirements without its memory test
meets_ignoring_memory(gpu, task) ==
    LET cores_available == FMul(FNat(gpu.cuda_cores), FOneMinus(gpu.current_utilization))
    IN  /\ FGe(cores_available, FNat(task.min_cuda_cores))
        /\ gpu.memory_bandwidth >= task.bandwidth_threshold
        /\ (~task.fp16_required \/ gpu.fp16_support)

meets_task_requirements(gpu, task) ==
    LET memory_available == gpu.total_memory - gpu.used_memory
        cores_available == FMul(FNat(gpu.cuda_cores), FOneMinus(gpu.current_utilization))
    IN  /\ memory_available >= task.required_memory
        /\ FGe(cores_available, FNat(task.min_cuda_cores))
        /\ gpu.memory_bandwidth >= task.bandwidth_threshold
        /\ (~task.fp16_required \/ gpu.fp16_support)

calculate_fitness_score(gpu, task) ==
    LET memory_ratio == FDivNat(gpu.used_memory + task.required_memory, gpu.total_memory)
        core_utilization == FMul(FDivNat(task.min_cuda_cores, gpu.cuda_cores), Frac(7, 10))
        bandwidth_utilization ==
            FMul(FDivNat(task.bandwidth_threshold, gpu.memory_bandwidth), Frac(3, 10))
    IN  FRecip(FAdd(FAdd(FMul(Frac(1, 2), memory_ratio),
                         FMul(Frac(3, 10), core_utilization)),
                    FMul(Frac(2, 10), bandwidth_utilization)))

\* An allocate_resources that books the memory but not the utilization
allocate_memory_only(gpu, task) ==
    LET new_util == FAdd(gpu.current_utilization,
                         FDivNat(task.min_cuda_cores, gpu.cuda_cores))
    IN  IF gpu.used_memory + task.required_memory > gpu.total_memory
        THEN [result |-> "ResourceConflict", gpu |-> gpu]
        ELSE IF FGt(new_util, FNat(1))
        THEN [result |-> "SchedulerOverload", gpu |-> gpu]
        ELSE [result |-> "Ok",
              gpu |-> [gpu EXCEPT !.used_memory = @ + task.required_memory]]

\* An allocate_resources that books the memory before it tests the
\* utilization
allocate_committing_first(gpu, task) ==
    LET new_util == FAdd(gpu.current_utilization,
                         FDivNat(task.min_cuda_cores, gpu.cuda_cores))
        booked == [gpu EXCEPT !.used_memory = @ + task.required_memory]
    IN  IF gpu.used_memory + task.required_memory > gpu.total_memory
        THEN [result |-> "ResourceConflict", gpu |-> gpu]
        ELSE IF FGt(new_util, FNat(1))
        THEN [result |-> "SchedulerOverload", gpu |-> booked]
        ELSE [result |-> "Ok", gpu |-> [booked EXCEPT !.current_utilization = new_util]]

\* Result<(), BinPackError> and the device as the call leaves it
allocate_resources(gpu, task) ==
    LET new_util == FAdd(gpu.current_utilization,
                         FDivNat(task.min_cuda_cores, gpu.cuda_cores))
    IN  IF gpu.used_memory + task.required_memory > gpu.total_memory
        THEN [result |-> "ResourceConflict", gpu |-> gpu]
        ELSE IF FGt(new_util, FNat(1))
        THEN [result |-> "SchedulerOverload", gpu |-> gpu]
        ELSE [result |-> "Ok",
              gpu |-> [gpu EXCEPT !.used_memory = @ + task.required_memory,
                                  !.current_utilization = new_util]]

\* The orders in which HashMap::values() may yield the pool's devices
IterationOrders(pool) ==
    { o \in [1..Cardinality(DOMAIN pool) -> DOMAIN pool] :
        \A i, j \in DOMAIN o : i # j => o[i] # o[j] }

\* allocate on device id and return as the strategy's `?` / Ok(id) does
AllocateOn(id, task, pool) ==
    LET a == allocate_resources(pool[id], task)
    IN  IF a.result = "Ok"
        THEN [result |-> "Ok", gpu_id |-> id, pool |-> [pool EXCEPT ![id] = a.gpu]]
        ELSE [result |-> a.result, gpu_id |-> "", pool |-> pool]

\* A strategy that takes the last device of the iteration that meets the
\* requirements
MultiDimLastFit_schedule(task, pool, order) ==
    LET hits == { i \in DOMAIN order : meets_task_requirements(pool[order[i]], task) }
    IN  IF hits = {}
        THEN [result |-> "InsufficientResource", gpu_id |-> "", pool |-> pool]
        ELSE LET last == CHOOSE i \in hits : \A j \in hits : i >= j
             IN  AllocateOn(order[last], task, pool)

\* impl PackingStrategy for MultiDimFirstFit, iterating the pool in `order`
MultiDimFirstFit_schedule(task, pool, order) ==
    LET hits == { i \in DOMAIN order : meets_task_requirements(pool[order[i]], task) }
    IN  IF hits = {}
        THEN [result |-> "InsufficientResource", gpu_id |-> "", pool |-> pool]
        ELSE LET first == CHOOSE i \in hits : \A j \in hits : i <= j
             IN  AllocateOn(order[first], task, pool)

\* Ordering of the heap entries (Reverse(GpuFitnessScore(score)), gpu_id):
\* a is above b when its score is lower, or the scores are equal and its id
\* is greater
HeapAbove(a, b) ==
    \/ FGt(b.score, a.score)
    \/ a.score = b.score /\ IdRank(a.id) > IdRank(b.id)

\* The entries heap.pop() may return.  With comparable scores the order is
\* total and the top is unique; an entry with a NaN score compares false
\* with every other one, and then which entry ends on top depends on the
\* order of the pushes: any of them.
HeapTops(heap) ==
    IF \E e \in heap : IsNaN(e.score)
    THEN heap
    ELSE { e \in heap : \A f \in heap : f = e \/ HeapAbove(e, f) }

\* impl PackingStrategy for BestFitWithScoring: the set of possible outcomes
BestFitWithScoring_schedule(task, pool) ==
    LET heap == { [score |-> calculate_fitness_score(pool[id], task), id |-> id] :
                    id \in { g \in DOMAIN pool : meets_task_requirements(pool[g], task) } }
    IN  IF heap = {}
        THEN { [result |-> "InsufficientResource", gpu_id |-> "", pool |-> pool] }
        ELSE { AllocateOn(e.id, task, pool) : e \in HeapTops(heap) }

StrategyNames == {"first_fit", "best_fit"}

\* ResourceScheduler::new(vec![]): best_fit is the strategy in force
SchedInit ==
    /\ gpu_pool = [id \in {} |-> NaN]
    /\ current_strategy = "best_fit"
    /\ sched_last = [op |-> "new", task |-> NoSchedTask, result |-> "Ok",
                     gpu_id |-> "", order |-> <<>>]

\* ResourceScheduler::schedule_task
ScheduleTask(task) ==
    /\ \E out \in (IF current_strategy \notin StrategyNames
                   THEN { [result |-> "ResourceConflict", gpu_id |-> "", pool |-> gpu_pool] }
                   ELSE IF current_strategy = "best_fit"
                   THEN BestFitWithScoring_schedule(task, gpu_pool)
                   ELSE { MultiDimFirstFit_schedule(task, gpu_pool, o) :
                            o \in IterationOrders(gpu_pool) }) :
        /\ gpu_pool' = out.pool
        /\ sched_last' = [op |-> "schedule_task", task |-> task, result |-> out.result,
                          gpu_id |-> out.gpu_id, order |-> <<>>]
    /\ UNCHANGED <<current_strategy, tm_vars, fd_vars, ts_vars>>

\* MultiDimFirstFit.schedule(&task, &mut pool): the first-fit strategy object
\* applied to the pool
FirstFitSchedule(task) ==
    /\ \E o \in IterationOrders(gpu_pool) :
        LET out == MultiDimFirstFit_schedule(task, gpu_pool, o)
        IN  /\ gpu_pool' = out.pool
            /\ sched_last' = [op |-> "first_fit", task |-> task, result |-> out.result,
                              gpu_id |-> out.gpu_id, order |-> o]
    /\ UNCHANGED <<current_strategy, tm_vars, fd_vars, ts_vars>>

\* ResourceScheduler::add_gpu
AddGpu(gpu) ==
    /\ gpu_pool' = [id \in DOMAIN gpu_pool \cup {gpu.id} |->
                        IF id = gpu.id THEN gpu ELSE gpu_pool[id]]
    /\ sched_last' = [op |-> "add_gpu", task |-> NoSchedTask, result |-> "Ok",
                      gpu_id |-> gpu.id, order |-> <<>>]
    /\ UNCHANGED <<current_strategy, tm_vars, fd_vars, ts_vars>>

\* ResourceScheduler::remove_gpu
RemoveGpu(gpu_id) ==
    /\ IF gpu_id \in DOMAIN gpu_pool
       THEN /\ gpu_pool' = [id \in DOMAIN gpu_pool \ {gpu_id} |-> gpu_pool[id]]
            /\ sched_last' = [op |-> "remove_gpu", task |-> NoSchedTask, result |-> "Ok",
                              gpu_id |-> gpu_id, order |-> <<>>]
       ELSE /\ gpu_pool' = gpu_pool
            /\ sched_last' = [op |-> "remove_gpu", task |-> NoSchedTask,
                              result |-> "ResourceConflict", gpu_id |-> gpu_id, order |-> <<>>]
    /\ UNCHANGED <<current_strategy, tm_vars, fd_vars, ts_vars>>

\* allocate_resources(gpu, task) on a device of the pool, whatever the caller
\* tested before
AllocateResources(gpu_id, task) ==
    /\ gpu_id \in DOMAIN gpu_pool
    /\ LET a == allocate_resources(gpu_pool[gpu_id], task)
       IN  /\ gpu_pool' = [gpu_pool EXCEPT ![gpu_id] = a.gpu]
           /\ sched_last' = [op |-> "allocate_resources", task |-> task,
                             result |-> a.result, gpu_id |-> gpu_id, order |-> <<>>]
    /\ UNCHANGED <<current_strategy, tm_vars, fd_vars, ts_vars>>

SchedNext ==
    \/ \E task \in SchedTasks : ScheduleTask(task)
    \/ \E task \in SchedTasks : FirstFitSchedule(task)
    \/ \E gpu \in NewGpus : AddGpu(gpu)
    \/ \E gpu_id \in GpuIds : RemoveGpu(gpu_id)

\* The allocation function applied on its own to the devices of a pool
AllocNext ==
    \/ \E gpu \in NewGpus : AddGpu(gpu)
    \/ \E gpu_id \in GpuIds, task \in SchedTasks : AllocateResources(gpu_id, task)

(***************************************************************************)
(* f32 rounding                                                            *)
(*                                                                         *)
(* The utilization test of meets_task_requirements and the one of          *)
(* allocate_resources are two different f32 expressions.  Here every f32   *)
(* operation is rounded as the hardware rounds it: to the nearest value    *)
(* with a 24-bit significand, ties to the even one.  Values are counted in *)
(* units of 2^-26, the spacing of the f32 values in [1/8, 1/4); an f32     *)
(* value below 32 that is a whole number of units is held exactly.  The    *)
(* device and task sizes of this section keep every quotient at or above   *)
(* 1/8, where no f32 value lies between two units.                         *)
(***************************************************************************)
F32Scale == 67108864
F32Significand == 16777216

\* The units of a utilization held as a fraction of denominator 2^k, k <= 26
Units(x) == x.n * (F32Scale \div x.d)

\* The spacing, in units, of the f32 values around k units
RECURSIVE Ulp(_)
Ulp(k) == IF k < F32Significand THEN 1 ELSE 2 * Ulp(k \div 2)

\* p/q units rounded to the nearest f32 value, ties to even
RoundF32(p, q) ==
    LET u == Ulp(p \div q)
        lo == (p \div (q * u)) * u
        rest == p - lo * q
    IN  IF 2 * rest < q * u THEN lo
        ELSE IF 2 * rest > q * u THEN lo + u
        ELSE IF (lo \div u) % 2 = 0 THEN lo ELSE lo + u

\* meets_task_requirements for a device with cuda_cores > 0 and a finite
\* utilization in [0, 1], each f32 operation rounded
meets_task_requirements_f32(gpu, task) ==
    LET memory_available == gpu.total_memory - gpu.used_memory
        idle == RoundF32(F32Scale - Units(gpu.current_utilization), 1)
        cores_available == RoundF32(gpu.cuda_cores * idle, 1)
    IN  /\ memory_available >= task.required_memory
        /\ cores_available >= task.min_cuda_cores * F32Scale
        /\ gpu.memory_bandwidth >= task.bandwidth_threshold
        /\ (~task.fp16_required \/ gpu.fp16_support)

\* allocate_resources for such a device, each f32 operation rounded
allocate_resources_f32(gpu, task) ==
    LET share == RoundF32(task.min_cuda_cores * F32Scale, gpu.cuda_cores)
        new_util == RoundF32(Units(gpu.current_utilization) + share, 1)
    IN  IF gpu.used_memory + task.required_memory > gpu.total_memory
        THEN [result |-> "ResourceConflict", gpu |-> gpu]
        ELSE IF new_util > F32Scale
        THEN [result |-> "SchedulerOverload", gpu |-> gpu]
        ELSE [result |-> "Ok",
              gpu |-> [gpu EXCEPT !.used_memory = @ + task.required_memory,
                                  !.current_utilization = Frac(new_util, F32Scale)]]

\* impl PackingStrategy for BestFitWithScoring with the rounded tests: the
\* set of possible outcomes
BestFitWithScoring_schedule_f32(task, pool) ==
    LET heap == { [score |-> calculate_fitness_score(pool[id], task), id |-> id] :
                    id \in { g \in DOMAIN pool : meets_task_requirements_f32(pool[g], task) } }
    IN  IF heap = {}
        THEN { [result |-> "InsufficientResource", gpu_id |-> "", pool |-> pool] }
        ELSE { LET a == allocate_resources_f32(pool[e.id], task)
               IN  IF a.result = "Ok"
                   THEN [result |-> "Ok", gpu_id |-> e.id,
                         pool |-> [pool EXCEPT ![e.id] = a.gpu]]
                   ELSE [result |-> a.result, gpu_id |-> "", pool |-> pool] :
               e \in HeapTops(heap) }

\* Utilizations a device may report when it is added: idle, 0.15 as f32, and
\* the f32 value three steps above it (0x1.33333ap-3)
F32Utilizations == {FNat(0), Frac(10066330, F32Scale), Frac(10066333, F32Scale)}
F32CoreChoices == {20}
F32MinCoreChoices == {3, 17}

\* The devices handed to add_gpu, all within the bounds
F32Gpus ==
    { GpuResource(id, total, 0, cores, bw, TRUE, util) :
        id \in GpuIds, total \in TotalMemoryChoices, cores \in F32CoreChoices,
        bw \in BandwidthChoices, util \in F32Utilizations }

\* The tasks handed to schedule_task
F32Tasks ==
    { SchedTask(req, cores, thr, FALSE) :
        req \in {1}, cores \in F32MinCoreChoices, thr \in BandwidthThresholdChoices }

\* ResourceScheduler::schedule_task (best_fit is the strategy in force)
ScheduleTaskF32(task) ==
    /\ \E out \in (IF current_strategy \notin StrategyNames
                   THEN { [result |-> "ResourceConflict", gpu_id |-> "", pool |-> gpu_pool] }
                   ELSE BestFitWithScoring_schedule_f32(task, gpu_pool)) :
        /\ gpu_pool' = out.pool
        /\ sched_last' = [op |-> "schedule_task", task |-> task, result |-> out.result,
                          gpu_id |-> out.gpu_id, order |-> <<>>]
    /\ UNCHANGED <<current_strategy, tm_vars, fd_vars, ts_vars>>

F32Next ==
    \/ \E task \in F32Tasks : ScheduleTaskF32(task)
    \/ \E gpu \in F32Gpus : AddGpu(gpu)
    \/ \E gpu_id \in GpuIds : RemoveGpu(gpu_id)
(***************************************************************************)
(* task_manager.rs                                                         *)
(*                                                                         *)
(* Units: memory_gb in GB; a device's memory_allocated and total_memory in *)
(* blocks of 1024 * 1024 * 1024 bytes, so `memory_gb as u64 * 1024 * 1024  *)
(* * 1024` is memory_gb blocks.  Each operation takes every lock it uses   *)
(* before it touches the state it guards, so an operation that runs to its *)
(* end is one step here.                                                   *)
(***************************************************************************)
TaskIds == {"A", "B", "C"}

\* enum TaskPriority
Low == 1
Medium == 2
High == 3
Critical == 4

MaxTime == 4
MaxMemoryGb == 2
MaxRpcFailures == 2
DeviceMemory == 2

TimeoutChoices == {2}

\* struct ResourceRequirements (gpu_type and storage_gb are never read)
ResourceRequirements(gpus, mem, timeout) ==
    [gpu_count |-> gpus, memory_gb |-> mem, timeout_secs |-> timeout]

RequirementChoices ==
    { ResourceRequirements(1, m, t) : m \in 1..MaxMemoryGb, t \in TimeoutChoices }
    \cup { ResourceRequirements(2, 1, t) : t \in TimeoutChoices }

\* struct ComputeTask as its submitter builds it: state Pending and
\* updated_at = created_at (owner, task_type and the cids are never read by
\* the operations below, except by submit_result, an external call)
ComputeTask(id, prio, req, created) ==
    [task_id |-> id, priority |-> prio, requirements |-> req, state |-> "Pending",
     created_at |-> created, updated_at |-> created]

\* The tasks handed to add_task: A of priority Low or High created at 0,
\* B of priority High created at 1, C of priority High created at 0, each
\* with any of the requirements above
NewTasks ==
    { ComputeTask("A", prio, req, 0) : prio \in {Low, High}, req \in RequirementChoices }
    \cup { ComputeTask("B", High, req, 1) : req \in RequirementChoices }
    \cup { ComputeTask("C", High, req, 0) : req \in RequirementChoices }

\* struct GpuResource of task_manager.rs (supported_ops is never read)
TmGpu(total) == [memory_allocated |-> 0, total_memory |-> total]

\* struct ResourcePool
ResourcePool(devices, total_gb) ==
    [gpu_devices |-> devices, available_memory_gb |-> total_gb, total_memory_gb |-> total_gb]

\* The pools a task manager runs with: the one TaskManager::new builds (no
\* device, no memory) and an idle two-device pool
PoolChoices ==
    { ResourcePool(<<>>, 0),
      ResourcePool(<<TmGpu(DeviceMemory), TmGpu(DeviceMemory)>>, 2 * DeviceMemory) }

\* An Ord for ComputeTask without the .reverse() on created_at: among equal
\* priorities the later task is the greater
cmp_without_reverse(a, b) ==
    IF a.priority < b.priority THEN -1
    ELSE IF a.priority > b.priority THEN 1
    ELSE IF a.created_at < b.created_at THEN -1
    ELSE IF a.created_at > b.created_at THEN 1
    ELSE 0

\* impl Ord for ComputeTask: Less = -1, Equal = 0, Greater = 1
cmp(a, b) ==
    IF a.priority < b.priority THEN -1
    ELSE IF a.priority > b.priority THEN 1
    ELSE IF a.created_at < b.created_at THEN 1
    ELSE IF a.created_at > b.created_at THEN -1
    ELSE 0

\* BinaryHeap::pop: a greatest task of the heap (which one among tasks that
\* compare Equal depends on the heap's layout: any of them)
HeapPop(queue) == { t \in queue : \A u \in queue : cmp(t, u) >= 0 }

\* A can_allocate that only looks at the general memory, not at the devices
can_allocate_memory_only(requirements, pool) ==
    requirements.memory_gb <= pool.available_memory_gb

\* TaskManager::can_allocate
can_allocate(requirements, pool) ==
    LET available_gpus ==
            Cardinality({ i \in DOMAIN pool.gpu_devices :
                pool.gpu_devices[i].memory_allocated + requirements.memory_gb
                    <= pool.gpu_devices[i].total_memory })
    IN  /\ (requirements.gpu_count > 0 => available_gpus >= requirements.gpu_count)
        /\ requirements.memory_gb <= pool.available_memory_gb

\* The loops of start_task and release_resources: walk the devices from
\* index i on, having taken `done` devices so far, and take every device
\* that passes the loop's test (ok[i]) until `count` are taken.  Yields the
\* indices taken.
RECURSIVE TakeDevices(_, _, _, _)
TakeDevices(ok, i, done, count) ==
    IF i > Len(ok) \/ done >= count THEN {}
    ELSE IF ok[i]
    THEN {i} \cup TakeDevices(ok, i + 1, done + 1, count)
    ELSE TakeDevices(ok, i + 1, done, count)

\* TaskManager::start_task: the result, the pool as the call leaves it and
\* the devices it allocated on.  The Running state and the new updated_at
\* are written to a clone that is dropped on return.
start_task(task, resources) ==
    LET req == task.requirements
        taken == IF req.gpu_count > 0
                 THEN TakeDevices([i \in DOMAIN resources.gpu_devices |->
                                     resources.gpu_devices[i].memory_allocated
                                         + req.memory_gb
                                       <= resources.gpu_devices[i].total_memory],
                                  1, 0, req.gpu_count)
                 ELSE {}
        devices == [i \in DOMAIN resources.gpu_devices |->
                      IF i \in taken
                      THEN [resources.gpu_devices[i] EXCEPT
                              !.memory_allocated = @ + req.memory_gb]
                      ELSE resources.gpu_devices[i]]
    IN  IF req.gpu_count > 0 /\ Cardinality(taken) < req.gpu_count
        THEN [result |-> "InsufficientResources", taken |-> taken,
              pool |-> [resources EXCEPT !.gpu_devices = devices]]
        ELSE [result |-> "Ok", taken |-> taken,
              pool |-> [resources EXCEPT
                          !.gpu_devices = devices,
                          !.available_memory_gb = @ - req.memory_gb]]

\* TaskManager::release_resources
release_resources(requirements, pool) ==
    LET taken == IF requirements.gpu_count > 0
                 THEN TakeDevices([i \in DOMAIN pool.gpu_devices |->
                                     pool.gpu_devices[i].memory_allocated
                                       >= requirements.memory_gb],
                                  1, 0, requirements.gpu_count)
                 ELSE {}
    IN  [pool EXCEPT
           !.gpu_devices = [i \in DOMAIN pool.gpu_devices |->
                              IF i \in taken
                              THEN [pool.gpu_devices[i] EXCEPT
                                      !.memory_allocated = @ - requirements.memory_gb]
                              ELSE pool.gpu_devices[i]],
           !.available_memory_gb = @ + requirements.memory_gb]

\* HashMap::insert / HashMap::remove on the running set and its placement record
MapInsert(map, key, value) ==
    [k \in DOMAIN map \cup {key} |-> IF k = key THEN value ELSE map[k]]
MapRemove(map, key) == [k \in DOMAIN map \ {key} |-> map[k]]

\* A scheduling loop that sets a task it cannot place aside and goes on with
\* the tasks after it, instead of pushing it back and breaking
RECURSIVE ScanPastBlocked(_, _, _, _, _, _)
ScanPastBlocked(queue, aside, resources, running, placed, order) ==
    IF queue = {}
    THEN { [queue |-> aside, pool |-> resources, running |-> running,
            placement |-> placed, order |-> order] }
    ELSE UNION {
        IF can_allocate(task.requirements, resources)
        THEN LET s == start_task(task, resources)
             IN  IF s.result # "Ok"
                 THEN ScanPastBlocked(queue \ {task}, aside, s.pool, running, placed, order)
                 ELSE ScanPastBlocked(queue \ {task}, aside, s.pool,
                                      MapInsert(running, task.task_id, task),
                                      MapInsert(placed, task.task_id, s.taken),
                                      Append(order, task.task_id))
        ELSE ScanPastBlocked(queue \ {task}, aside \cup {task}, resources, running,
                             placed, order)
        : task \in HeapPop(queue) }

ScheduleLoopSkippingBlocked(queue, resources, running, placed, order) ==
    ScanPastBlocked(queue, {}, resources, running, placed, order)

\* The body of schedule_tasks' loop after one tick, under the three locks:
\* the states the `while let Some(task) = queue.pop()` loop may end in
RECURSIVE ScheduleLoop(_, _, _, _, _)
ScheduleLoop(queue, resources, running, placed, order) ==
    IF queue = {}
    THEN { [queue |-> queue, pool |-> resources, running |-> running,
            placement |-> placed, order |-> order] }
    ELSE UNION {
        IF can_allocate(task.requirements, resources)
        THEN LET s == start_task(task, resources)
             IN  IF s.result # "Ok"
                 THEN ScheduleLoop(queue \ {task}, s.pool, running, placed, order)
                 ELSE ScheduleLoop(queue \ {task}, s.pool,
                                   MapInsert(running, task.task_id, task),
                                   MapInsert(placed, task.task_id, s.taken),
                                   Append(order, task.task_id))
        ELSE { [queue |-> queue, pool |-> resources, running |-> running,
                placement |-> placed, order |-> order] }
        : task \in HeapPop(queue) }

TmLast(op, id, result, order) ==
    [op |-> op, task_id |-> id, result |-> result, order |-> order]

\* The three locks of struct TaskManager and the operations that take them
LockNames == {"pending_queue", "resource_pool", "running_tasks"}
Operations == {"schedule_tasks", "complete_task", "monitor_timeouts"}

\* An operation that is not running; otherwise `at` is the await it stands
\* at, with the locals that live across it
Idle == [at |-> "idle", task_id |-> "", to_remove |-> <<>>,
         held |-> ResourceRequirements(0, 0, 0)]

\* TaskManager::new
TMNew ==
    /\ pending_queue = {}
    /\ running_tasks = [id \in {} |-> 0]
    /\ now = 1
    /\ placement = [id \in {} |-> {}]
    /\ submitted = {}
    /\ completed = {}
    /\ rpc_failures = 0
    /\ tm_last = TmLast("new", "", "Ok", <<>>)
    /\ locks = [l \in LockNames |-> "free"]
    /\ tm_pc = [p \in Operations |-> Idle]

TMInit ==
    /\ TMNew
    /\ resource_pool \in PoolChoices

\* An add_task that refuses a task the pool cannot hold at the moment
AddTaskWhenAllocatable(task) ==
    /\ task.task_id \notin submitted
    /\ task.created_at <= now
    /\ IF can_allocate(task.requirements, resource_pool)
       THEN /\ pending_queue' = pending_queue \cup {task}
            /\ tm_last' = TmLast("add_task", task.task_id, "Ok", <<>>)
       ELSE /\ pending_queue' = pending_queue
            /\ tm_last' = TmLast("add_task", task.task_id, "InsufficientResources", <<>>)
    /\ submitted' = submitted \cup {task.task_id}
    /\ UNCHANGED <<running_tasks, resource_pool, now, placement, completed, rpc_failures>>
    /\ UNCHANGED <<lock_vars, sched_vars, fd_vars, ts_vars>>

\* TaskManager::add_task, called with a task whose id was not used before
AddTask(task) ==
    /\ task.task_id \notin submitted
    /\ task.created_at <= now
    /\ pending_queue' = pending_queue \cup {task}
    /\ submitted' = submitted \cup {task.task_id}
    /\ tm_last' = TmLast("add_task", task.task_id, "Ok", <<>>)
    /\ UNCHANGED <<running_tasks, resource_pool, now, placement, completed, rpc_failures>>
    /\ UNCHANGED <<lock_vars, sched_vars, fd_vars, ts_vars>>

\* A scheduling cycle whose started tasks are not taken out of the queue
ScheduleTasksKeepingQueue ==
    /\ \E end \in ScheduleLoop(pending_queue, resource_pool, running_tasks, placement, <<>>) :
        /\ pending_queue' = pending_queue
        /\ resource_pool' = end.pool
        /\ running_tasks' = end.running
        /\ placement' = end.placement
        /\ tm_last' = TmLast("schedule_tasks", "", "Ok", end.order)
    /\ UNCHANGED <<now, submitted, completed, rpc_failures, lock_vars, sched_vars, fd_vars, ts_vars>>

\* A scheduling cycle that starts tasks only while nothing is running
ScheduleTasksOnlyWhenIdle ==
    /\ \E end \in (IF DOMAIN running_tasks = {}
                   THEN ScheduleLoop(pending_queue, resource_pool, running_tasks,
                                     placement, <<>>)
                   ELSE { [queue |-> pending_queue, pool |-> resource_pool,
                           running |-> running_tasks, placement |-> placement,
                           order |-> <<>>] }) :
        /\ pending_queue' = end.queue
        /\ resource_pool' = end.pool
        /\ running_tasks' = end.running
        /\ placement' = end.placement
        /\ tm_last' = TmLast("schedule_tasks", "", "Ok", end.order)
    /\ UNCHANGED <<now, submitted, completed, rpc_failures, lock_vars, sched_vars, fd_vars, ts_vars>>

\* One scheduling cycle of TaskManager::schedule_tasks
ScheduleTasks ==
    /\ \E end \in ScheduleLoop(pending_queue, resource_pool, running_tasks, placement, <<>>) :
        /\ pending_queue' = end.queue
        /\ resource_pool' = end.pool
        /\ running_tasks' = end.running
        /\ placement' = end.placement
        /\ tm_last' = TmLast("schedule_tasks", "", "Ok", end.order)
    /\ UNCHANGED <<now, submitted, completed, rpc_failures, lock_vars, sched_vars, fd_vars, ts_vars>>

\* A complete_task without its final running.remove(task_id)
CompleteTaskKeepingEntry(task_id, submit_ok) ==
    /\ IF task_id \notin DOMAIN running_tasks
       THEN /\ tm_last' = TmLast("complete_task", task_id, "TaskNotFound", <<>>)
            /\ UNCHANGED <<running_tasks, resource_pool, placement, completed,
                           rpc_failures>>
       ELSE /\ resource_pool' =
                   release_resources(running_tasks[task_id].requirements, resource_pool)
            /\ IF submit_ok
               THEN /\ completed' = completed \cup {task_id}
                    /\ tm_last' = TmLast("complete_task", task_id, "Ok", <<>>)
                    /\ UNCHANGED <<running_tasks, placement, rpc_failures>>
               ELSE /\ rpc_failures < MaxRpcFailures
                    /\ rpc_failures' = rpc_failures + 1
                    /\ tm_last' = TmLast("complete_task", task_id, "RpcError", <<>>)
                    /\ UNCHANGED <<running_tasks, placement, completed>>
    /\ UNCHANGED <<pending_queue, now, submitted, lock_vars, sched_vars, fd_vars, ts_vars>>

\* TaskManager::complete_task; submit_result is the ledger call, which may
\* succeed or fail
CompleteTask(task_id, submit_ok) ==
    /\ IF task_id \notin DOMAIN running_tasks
       THEN /\ tm_last' = TmLast("complete_task", task_id, "TaskNotFound", <<>>)
            /\ UNCHANGED <<running_tasks, resource_pool, placement, completed,
                           rpc_failures>>
       ELSE /\ resource_pool' =
                   release_resources(running_tasks[task_id].requirements, resource_pool)
            /\ IF submit_ok
               THEN /\ running_tasks' = MapRemove(running_tasks, task_id)
                    /\ placement' = MapRemove(placement, task_id)
                    /\ completed' = completed \cup {task_id}
                    /\ tm_last' = TmLast("complete_task", task_id, "Ok", <<>>)
                    /\ UNCHANGED rpc_failures
               ELSE /\ rpc_failures < MaxRpcFailures
                    /\ rpc_failures' = rpc_failures + 1
                    /\ tm_last' = TmLast("complete_task", task_id, "RpcError", <<>>)
                    /\ UNCHANGED <<running_tasks, placement, completed>>
    /\ UNCHANGED <<pending_queue, now, submitted, lock_vars, sched_vars, fd_vars, ts_vars>>

\* The orders in which a set of task ids may be listed
Orders(ids) ==
    { o \in [1..Cardinality(ids) -> ids] : \A i, j \in DOMAIN o : i # j => o[i] # o[j] }

\* monitor_timeouts' second loop: remove and release the tasks of to_remove
RECURSIVE RemoveTimedOut(_, _, _, _)
RemoveTimedOut(to_remove, i, running, pool) ==
    IF i > Len(to_remove) THEN [running |-> running, pool |-> pool]
    ELSE IF to_remove[i] \in DOMAIN running
    THEN RemoveTimedOut(to_remove, i + 1, MapRemove(running, to_remove[i]),
                        release_resources(running[to_remove[i]].requirements, pool))
    ELSE RemoveTimedOut(to_remove, i + 1, running, pool)

\* One sweep of TaskManager::monitor_timeouts; running.iter() lists the
\* timed-out tasks in any order
MonitorTimeouts ==
    LET timed_out == { id \in DOMAIN running_tasks :
                         now - running_tasks[id].updated_at
                             > running_tasks[id].requirements.timeout_secs }
    IN  /\ \E to_remove \in Orders(timed_out) :
            LET end == RemoveTimedOut(to_remove, 1, running_tasks, resource_pool)
            IN  /\ running_tasks' = end.running
                /\ resource_pool' = end.pool
                /\ placement' = [id \in DOMAIN end.running |-> placement[id]]
                /\ tm_last' = TmLast("monitor_timeouts", "", "Ok", to_remove)
        /\ UNCHANGED <<pending_queue, now, submitted, completed, rpc_failures, lock_vars,
                       sched_vars, fd_vars, ts_vars>>

\* A second passes
Tick ==
    /\ now < MaxTime
    /\ now' = now + 1
    /\ tm_last' = TmLast("tick", "", "Ok", <<>>)
    /\ UNCHANGED <<pending_queue, running_tasks, resource_pool, placement, submitted,
                   completed, rpc_failures, lock_vars, sched_vars, fd_vars, ts_vars>>

TMNext ==
    \/ \E task \in NewTasks : AddTask(task)
    \/ ScheduleTasks
    \/ \E task_id \in TaskIds, submit_ok \in BOOLEAN : CompleteTask(task_id, submit_ok)
    \/ MonitorTimeouts
    \/ Tick

(***************************************************************************)
(* task_manager.rs, one step per stretch of code between two awaits that   *)
(* can suspend: lock().await and write().await suspend until the lock is   *)
(* free, submit_result suspends on the ledger RPC.  Every lock is taken    *)
(* exclusively (Mutex::lock, RwLock::write) and dropped where its guard    *)
(* goes out of scope.                                                      *)
(***************************************************************************)
At(op, label) == tm_pc[op].at = label

\* add_task: takes the queue lock, pushes, drops the lock
LockedAddTask(task) ==
    /\ locks["pending_queue"] = "free"
    /\ AddTask(task)

\* schedule_tasks, line 147: self.pending_queue.lock().await
ScheduleLockQueue ==
    /\ At("schedule_tasks", "idle")
    /\ locks["pending_queue"] = "free"
    /\ locks' = [locks EXCEPT !["pending_queue"] = "schedule_tasks"]
    /\ tm_pc' = [tm_pc EXCEPT !["schedule_tasks"].at = "lock_resources"]
    /\ tm_last' = TmLast("await", "", "Ok", <<>>)
    /\ UNCHANGED <<pending_queue, running_tasks, resource_pool, now, placement, submitted,
                   completed, rpc_failures, sched_vars, fd_vars, ts_vars>>

\* schedule_tasks, line 148: self.resource_pool.write().await
ScheduleLockResources ==
    /\ At("schedule_tasks", "lock_resources")
    /\ locks["resource_pool"] = "free"
    /\ locks' = [locks EXCEPT !["resource_pool"] = "schedule_tasks"]
    /\ tm_pc' = [tm_pc EXCEPT !["schedule_tasks"].at = "lock_running"]
    /\ tm_last' = TmLast("await", "", "Ok", <<>>)
    /\ UNCHANGED <<pending_queue, running_tasks, resource_pool, now, placement, submitted,
                   completed, rpc_failures, sched_vars, fd_vars, ts_vars>>

\* schedule_tasks, lines 149-163: self.running_tasks.write().await, the
\* while-let loop, and the three guards dropped at the end of the iteration
ScheduleLockRunningAndRun ==
    /\ At("schedule_tasks", "lock_running")
    /\ locks["running_tasks"] = "free"
    /\ \E end \in ScheduleLoop(pending_queue, resource_pool, running_tasks, placement, <<>>) :
        /\ pending_queue' = end.queue
        /\ resource_pool' = end.pool
        /\ running_tasks' = end.running
        /\ placement' = end.placement
        /\ tm_last' = TmLast("schedule_tasks", "", "Ok", end.order)
    /\ locks' = [locks EXCEPT !["pending_queue"] = "free", !["resource_pool"] = "free"]
    /\ tm_pc' = [tm_pc EXCEPT !["schedule_tasks"] = Idle]
    /\ UNCHANGED <<now, submitted, completed, rpc_failures, sched_vars, fd_vars, ts_vars>>

\* complete_task, line 238: self.running_tasks.write().await
CompleteLockRunning(task_id) ==
    /\ At("complete_task", "idle")
    /\ locks["running_tasks"] = "free"
    /\ locks' = [locks EXCEPT !["running_tasks"] = "complete_task"]
    /\ tm_pc' = [tm_pc EXCEPT !["complete_task"] =
                    [Idle EXCEPT !.at = "lock_resources", !.task_id = task_id]]
    /\ tm_last' = TmLast("await", task_id, "Ok", <<>>)
    /\ UNCHANGED <<pending_queue, running_tasks, resource_pool, now, placement, submitted,
                   completed, rpc_failures, sched_vars, fd_vars, ts_vars>>

\* complete_task, lines 239-256: self.resource_pool.write().await, the
\* lookup (TaskNotFound returns and drops both guards), release_resources,
\* and the call of submit_result, which suspends with both guards alive
CompleteLockResourcesAndRelease ==
    LET task_id == tm_pc["complete_task"].task_id
    IN  /\ At("complete_task", "lock_resources")
        /\ locks["resource_pool"] = "free"
        /\ IF task_id \notin DOMAIN running_tasks
           THEN /\ locks' = [locks EXCEPT !["running_tasks"] = "free"]
                /\ tm_pc' = [tm_pc EXCEPT !["complete_task"] = Idle]
                /\ tm_last' = TmLast("complete_task", task_id, "TaskNotFound", <<>>)
                /\ UNCHANGED resource_pool
           ELSE /\ locks' = [locks EXCEPT !["resource_pool"] = "complete_task"]
                /\ tm_pc' = [tm_pc EXCEPT !["complete_task"].at = "submit_result"]
                /\ resource_pool' =
                       release_resources(running_tasks[task_id].requirements, resource_pool)
                /\ tm_last' = TmLast("await", task_id, "Ok", <<>>)
        /\ UNCHANGED <<pending_queue, running_tasks, now, placement, submitted,
                       completed, rpc_failures, sched_vars, fd_vars, ts_vars>>

\* complete_task, lines 256-260: submit_result returns; on Ok the task is
\* removed; either way the function returns and both guards are dropped
CompleteSubmitReturns(submit_ok) ==
    LET task_id == tm_pc["complete_task"].task_id
    IN  /\ At("complete_task", "submit_result")
        /\ IF submit_ok
           THEN /\ running_tasks' = MapRemove(running_tasks, task_id)
                /\ placement' = MapRemove(placement, task_id)
                /\ completed' = completed \cup {task_id}
                /\ tm_last' = TmLast("complete_task", task_id, "Ok", <<>>)
                /\ UNCHANGED rpc_failures
           ELSE /\ rpc_failures < MaxRpcFailures
                /\ rpc_failures' = rpc_failures + 1
                /\ tm_last' = TmLast("complete_task", task_id, "RpcError", <<>>)
                /\ UNCHANGED <<running_tasks, placement, completed>>
        /\ locks' = [locks EXCEPT !["running_tasks"] = "free", !["resource_pool"] = "free"]
        /\ tm_pc' = [tm_pc EXCEPT !["complete_task"] = Idle]
        /\ UNCHANGED <<pending_queue, resource_pool, now, submitted, sched_vars, fd_vars, ts_vars>>

\* monitor_timeouts, lines 319-333: now, self.running_tasks.write().await
\* and the loop that collects to_remove
MonitorLockRunning ==
    LET timed_out == { id \in DOMAIN running_tasks :
                         now - running_tasks[id].updated_at
                             > running_tasks[id].requirements.timeout_secs }
    IN  /\ At("monitor_timeouts", "idle")
        /\ locks["running_tasks"] = "free"
        /\ locks' = [locks EXCEPT !["running_tasks"] = "monitor_timeouts"]
        /\ \E to_remove \in Orders(timed_out) :
            tm_pc' = [tm_pc EXCEPT !["monitor_timeouts"] =
                         [Idle EXCEPT !.at = "remove", !.to_remove = to_remove]]
        /\ tm_last' = TmLast("await", "", "Ok", <<>>)
        /\ UNCHANGED <<pending_queue, running_tasks, resource_pool, now, placement,
                       submitted, completed, rpc_failures, sched_vars, fd_vars, ts_vars>>

\* monitor_timeouts, lines 335-336: the next running.remove(&task_id), or
\* the end of the iteration, where the running guard is dropped
MonitorRemove ==
    LET pc == tm_pc["monitor_timeouts"]
    IN  /\ At("monitor_timeouts", "remove")
        /\ IF pc.to_remove = <<>>
           THEN /\ locks' = [locks EXCEPT !["running_tasks"] = "free"]
                /\ tm_pc' = [tm_pc EXCEPT !["monitor_timeouts"] = Idle]
                /\ tm_last' = TmLast("monitor_timeouts", "", "Ok", <<>>)
                /\ UNCHANGED <<running_tasks, placement>>
           ELSE LET task_id == Head(pc.to_remove)
                IN  /\ running_tasks' = MapRemove(running_tasks, task_id)
                    /\ placement' = MapRemove(placement, task_id)
                    /\ tm_pc' = [tm_pc EXCEPT !["monitor_timeouts"] =
                                    [at |-> "lock_resources", task_id |-> task_id,
                                     to_remove |-> Tail(pc.to_remove),
                                     held |-> running_tasks[task_id].requirements]]
                    /\ tm_last' = TmLast("await", task_id, "Ok", <<>>)
                    /\ UNCHANGED locks
        /\ UNCHANGED <<pending_queue, resource_pool, now, submitted, completed,
                       rpc_failures, sched_vars, fd_vars, ts_vars>>

\* monitor_timeouts, lines 337-339: self.resource_pool.write().await,
\* release_resources, and the resources guard dropped at the end of the block
MonitorLockResourcesAndRelease ==
    LET pc == tm_pc["monitor_timeouts"]
    IN  /\ At("monitor_timeouts", "lock_resources")
        /\ locks["resource_pool"] = "free"
        /\ resource_pool' = release_resources(pc.held, resource_pool)
        /\ tm_pc' = [tm_pc EXCEPT !["monitor_timeouts"] =
                        [Idle EXCEPT !.at = "remove", !.to_remove = pc.to_remove]]
        /\ tm_last' = TmLast("await", pc.task_id, "Ok", <<>>)
        /\ UNCHANGED <<pending_queue, running_tasks, now, placement, submitted, completed,
                       rpc_failures, locks, sched_vars, fd_vars, ts_vars>>

\* The tasks submitted in the lock-level runs
LockedTasks == { t \in NewTasks : t.task_id \in {"A", "B"} }

TMLockedNext ==
    \/ \E task \in LockedTasks : LockedAddTask(task)
    \/ ScheduleLockQueue
    \/ ScheduleLockResources
    \/ ScheduleLockRunningAndRun
    \/ \E task_id \in {"A", "B"} : CompleteLockRunning(task_id)
    \/ CompleteLockResourcesAndRelease
    \/ \E submit_ok \in BOOLEAN : CompleteSubmitReturns(submit_ok)
    \/ MonitorLockRunning
    \/ MonitorRemove
    \/ MonitorLockResourcesAndRelease
    \/ Tick


\* The task manager's operations with tasks A and B only
TMLiveNext ==
    \/ \E task \in LockedTasks : AddTask(task)
    \/ ScheduleTasks
    \/ \E task_id \in {"A", "B"}, submit_ok \in BOOLEAN : CompleteTask(task_id, submit_ok)
    \/ MonitorTimeouts
    \/ Tick

(***************************************************************************)
(* fault_detector.rs                                                       *)
(*                                                                         *)
(* Time is in seconds.  pending_faults is a Vec that is only pushed to,    *)
(* iterated to count the entries of each node, and cleared: it is kept as  *)
(* the bag of its entries.                                                 *)
(***************************************************************************)
\* The nodes of the two tests' registries, and an id that is not registered
RegisteredNodes == {"bad_actor", "test_node"}
UnknownNode == "unknown"

\* Intervals of start_monitoring and check_heartbeats
MonitorIntervalSecs == 30
HeartbeatTimeoutSecs == 120

\* FaultDetector::new(0.6) in both tests
ConsensusRatioPercent == 60

\* apply_penalties
ReputationDecay == 10
QuarantineBelow == 20

\* One more than u8::MAX
U8Modulus == 256

MaxInstant == 150
MaxPending == 12
FloodPending == 257

\* The kinds of enum FaultType that report_fault is called with here
ReportKinds == {"ByzantineBehavior"}

\* struct NodeHealth (task_success_rate and resource_usage are never read)
NodeHealth(heartbeat, reputation, stake) ==
    [last_heartbeat |-> heartbeat, reputation_score |-> reputation, staked_tokens |-> stake]

\* (consensus_ratio * 10.0) as u8, the ratio given in percent
ThresholdOf(ratio_percent) == (ratio_percent * 10) \div 100

\* Number of pending entries against node_id, whatever their kind
Reports(faults, node_id) ==
    LET entries == { e \in BagToSet(faults) : e[2] = node_id }
        RECURSIVE Sum(_)
        Sum(es) == IF es = {} THEN 0
                   ELSE LET e == CHOOSE x \in es : TRUE
                        IN  CopiesIn(e, faults) + Sum(es \ {e})
    IN  Sum(entries)

ReportedNodes(faults) == { e[2] : e \in BagToSet(faults) }

FdLast(op, node_id, result, reports, before) ==
    [op |-> op, node_id |-> node_id, result |-> result, reports |-> reports,
     before |-> before]

NoReports == [id \in {} |-> 0]

\* FaultDetector::new: an empty registry and no pending fault
FDNew ==
    /\ node_registry = [id \in {} |-> 0]
    /\ pending_faults = EmptyBag
    /\ consensus_threshold = ThresholdOf(ConsensusRatioPercent)
    /\ instant = 0
    /\ monitor_pc = [at |-> "tick", next_tick |-> 0]
    /\ quarantine_calls = {}
    /\ fd_last = FdLast("new", "", "Ok", NoReports, node_registry)

\* The detector of test_consensus_penalty: bad_actor registered with a
\* heartbeat of now, reputation 30 and stake 500
FDInitFlood ==
    /\ node_registry = [id \in {"bad_actor"} |-> NodeHealth(0, 30, 500)]
    /\ pending_faults = EmptyBag
    /\ consensus_threshold = ThresholdOf(ConsensusRatioPercent)
    /\ instant = 0
    /\ monitor_pc = [at |-> "tick", next_tick |-> 0]
    /\ quarantine_calls = {}
    /\ fd_last = FdLast("new", "", "Ok", NoReports, node_registry)

\* Both tests' nodes registered: bad_actor as above, test_node with a
\* heartbeat 300 s old, reputation 50 and stake 1000
FDInit ==
    /\ node_registry = [id \in RegisteredNodes |->
                          IF id = "bad_actor" THEN NodeHealth(0, 30, 500)
                          ELSE NodeHealth(0 - 300, 50, 1000)]
    /\ pending_faults = EmptyBag
    /\ consensus_threshold = ThresholdOf(ConsensusRatioPercent)
    /\ instant = 0
    /\ monitor_pc = [at |-> "tick", next_tick |-> 0]
    /\ quarantine_calls = {}
    /\ fd_last = FdLast("new", "", "Ok", NoReports, node_registry)

\* A report_fault that refuses a node id that is not registered
ReportFaultOfRegisteredOnly(fault, node_id) ==
    /\ IF node_id \in DOMAIN node_registry
       THEN /\ pending_faults' = pending_faults (+) SetToBag({<<fault, node_id>>})
            /\ fd_last' = FdLast("report_fault", node_id, "Ok", NoReports, node_registry)
       ELSE /\ pending_faults' = pending_faults
            /\ fd_last' = FdLast("report_fault", node_id, "ConsensusFailure", NoReports,
                                 node_registry)
    /\ UNCHANGED <<node_registry, consensus_threshold, instant, monitor_pc, quarantine_calls>>
    /\ UNCHANGED <<sched_vars, tm_vars, ts_vars>>

\* FaultDetector::report_fault
ReportFault(fault, node_id) ==
    /\ pending_faults' = pending_faults (+) SetToBag({<<fault, node_id>>})
    /\ fd_last' = FdLast("report_fault", node_id, "Ok", NoReports, node_registry)
    /\ UNCHANGED <<node_registry, consensus_threshold, instant, monitor_pc, quarantine_calls>>
    /\ UNCHANGED <<sched_vars, tm_vars, ts_vars>>

\* start_monitoring: interval.tick().await returns
MonitorTick ==
    /\ monitor_pc.at = "tick"
    /\ instant >= monitor_pc.next_tick
    /\ monitor_pc' = [at |-> "check_heartbeats",
                      next_tick |-> monitor_pc.next_tick + MonitorIntervalSecs]
    /\ fd_last' = FdLast("tick", "", "Ok", NoReports, node_registry)
    /\ UNCHANGED <<node_registry, pending_faults, consensus_threshold, instant,
                   quarantine_calls, sched_vars, tm_vars, ts_vars>>

\* A check_heartbeats that reports every registered node, whatever the age of
\* its heartbeat
check_heartbeats_ignoring_window(registry, faults) ==
    faults (+) SetToBag({ <<"ByzantineBehavior", node_id>> : node_id \in DOMAIN registry })

\* A check_heartbeats that pushes two entries for a node whose heartbeat is
\* too old
check_heartbeats_pushing_twice(registry, faults) ==
    LET stale == SetToBag({ <<"ByzantineBehavior", node_id>> :
                              node_id \in { id \in DOMAIN registry :
                                  instant - registry[id].last_heartbeat
                                      > HeartbeatTimeoutSecs } })
    IN  faults (+) stale (+) stale

\* FaultDetector::check_heartbeats
check_heartbeats(registry, faults) ==
    faults (+) SetToBag({ <<"ByzantineBehavior", node_id>> :
                            node_id \in { id \in DOMAIN registry :
                                instant - registry[id].last_heartbeat
                                    > HeartbeatTimeoutSecs } })

\* start_monitoring: check_heartbeats, then audit_pending_tasks (a
\* placeholder that does nothing)
CheckHeartbeats ==
    /\ monitor_pc.at = "check_heartbeats"
    /\ pending_faults' = check_heartbeats(node_registry, pending_faults)
    /\ monitor_pc' = [monitor_pc EXCEPT !.at = "verify_consensus"]
    /\ fd_last' = FdLast("check_heartbeats", "", "Ok", NoReports, node_registry)
    /\ UNCHANGED <<node_registry, consensus_threshold, instant, quarantine_calls>>
    /\ UNCHANGED <<sched_vars, tm_vars, ts_vars>>

\* An apply_penalties whose reputation decay wraps around instead of
\* saturating (the penalty never exceeds the stake)
apply_penalties_wrapping(health) ==
    LET penalty == health.staked_tokens \div 10
    IN  [health EXCEPT
           !.staked_tokens = health.staked_tokens - penalty,
           !.reputation_score = (health.reputation_score - ReputationDecay) % U8Modulus]

\* FaultDetector::apply_penalties on one node's record.  The penalty is
\* (staked_tokens as f32 * 0.1) as u64, which for the stakes reached here
\* (at most 1000) is the tenth of the stake rounded down.
apply_penalties(health) ==
    LET penalty == health.staked_tokens \div 10
    IN  [health EXCEPT
           !.staked_tokens = Max(health.staked_tokens - penalty, 0),
           !.reputation_score = Max(health.reputation_score - ReputationDecay, 0)]

\* A counting loop that adds every pending entry to every reported node's
\* counter, whichever node the entry names
fault_counts_of_all_entries(faults) ==
    [id \in ReportedNodes(faults) |-> BagCardinality(faults) % U8Modulus]

\* The u8 entries of fault_counts after the counting loop of verify_consensus
\* when `+= 1` wraps
fault_counts(faults) ==
    [id \in ReportedNodes(faults) |-> Reports(faults, id) % U8Modulus]

\* Whether `+= 1` overflows the u8 counter of some node
CountOverflows(faults) ==
    \E id \in ReportedNodes(faults) : Reports(faults, id) >= U8Modulus

\* A verify_consensus without its final faults.clear()
VerifyConsensusKeepingFaults ==
    LET counts == fault_counts(pending_faults)
        hit == { id \in DOMAIN counts : counts[id] >= consensus_threshold }
        penalised == hit \cap DOMAIN node_registry
        registry == [id \in DOMAIN node_registry |->
                       IF id \in penalised THEN apply_penalties(node_registry[id])
                       ELSE node_registry[id]]
    IN  /\ monitor_pc.at = "verify_consensus"
        /\ node_registry' = registry
        /\ quarantine_calls' = quarantine_calls \cup
                { id \in penalised : registry[id].reputation_score < QuarantineBelow }
        /\ monitor_pc' = [monitor_pc EXCEPT !.at = "tick"]
        /\ fd_last' = FdLast("verify_consensus", "", "Ok",
                             [id \in ReportedNodes(pending_faults) |->
                                Reports(pending_faults, id)],
                             node_registry)
        /\ UNCHANGED <<pending_faults, consensus_threshold, instant, sched_vars, tm_vars, ts_vars>>

\* A verify_consensus that gives up the cycle when a node at the threshold
\* is not in the registry: nobody is penalised and the list is not cleared
VerifyConsensusStoppingAtUnknown ==
    LET counts == fault_counts(pending_faults)
        hit == { id \in DOMAIN counts : counts[id] >= consensus_threshold }
        stopped == hit \ DOMAIN node_registry # {}
        penalised == IF stopped THEN {} ELSE hit
        registry == [id \in DOMAIN node_registry |->
                       IF id \in penalised THEN apply_penalties(node_registry[id])
                       ELSE node_registry[id]]
    IN  /\ monitor_pc.at = "verify_consensus"
        /\ node_registry' = registry
        /\ quarantine_calls' = quarantine_calls \cup
                { id \in penalised : registry[id].reputation_score < QuarantineBelow }
        /\ pending_faults' = IF stopped THEN pending_faults ELSE EmptyBag
        /\ monitor_pc' = [monitor_pc EXCEPT !.at = "tick"]
        /\ fd_last' = FdLast("verify_consensus", "", "Ok",
                             [id \in ReportedNodes(pending_faults) |->
                                Reports(pending_faults, id)],
                             node_registry)
        /\ UNCHANGED <<consensus_threshold, instant, sched_vars, tm_vars, ts_vars>>

\* FaultDetector::verify_consensus, run to its end
VerifyConsensus ==
    LET counts == fault_counts(pending_faults)
        hit == { id \in DOMAIN counts : counts[id] >= consensus_threshold }
        penalised == hit \cap DOMAIN node_registry
        registry == [id \in DOMAIN node_registry |->
                       IF id \in penalised THEN apply_penalties(node_registry[id])
                       ELSE node_registry[id]]
    IN  /\ monitor_pc.at = "verify_consensus"
        /\ node_registry' = registry
        /\ quarantine_calls' = quarantine_calls \cup
                { id \in penalised : registry[id].reputation_score < QuarantineBelow }
        /\ pending_faults' = EmptyBag
        /\ monitor_pc' = [monitor_pc EXCEPT !.at = "tick"]
        /\ fd_last' = FdLast("verify_consensus", "", "Ok",
                             [id \in ReportedNodes(pending_faults) |->
                                Reports(pending_faults, id)],
                             node_registry)
        /\ UNCHANGED <<consensus_threshold, instant, sched_vars, tm_vars, ts_vars>>

\* FaultDetector::verify_consensus in a build with overflow checks: the
\* 256th `+= 1` for one node panics, the locks are released by the unwind
\* and the monitoring task ends
VerifyConsensusPanics ==
    /\ monitor_pc.at = "verify_consensus"
    /\ CountOverflows(pending_faults)
    /\ monitor_pc' = [monitor_pc EXCEPT !.at = "panicked"]
    /\ fd_last' = FdLast("verify_consensus", "", "panic",
                         [id \in ReportedNodes(pending_faults) |->
                            Reports(pending_faults, id)],
                         node_registry)
    /\ UNCHANGED <<node_registry, pending_faults, consensus_threshold, instant,
                   quarantine_calls, sched_vars, tm_vars, ts_vars>>

\* MonitorIntervalSecs pass
FdClock ==
    /\ instant + MonitorIntervalSecs <= MaxInstant
    /\ instant' = instant + MonitorIntervalSecs
    /\ fd_last' = FdLast("clock", "", "Ok", NoReports, node_registry)
    /\ UNCHANGED <<node_registry, pending_faults, consensus_threshold, monitor_pc,
                   quarantine_calls, sched_vars, tm_vars, ts_vars>>

FDSteps ==
    \/ MonitorTick
    \/ CheckHeartbeats
    \/ VerifyConsensus
    \/ FdClock

FDNext ==
    \/ \E fault \in ReportKinds, node_id \in RegisteredNodes \cup {UnknownNode} :
        /\ BagCardinality(pending_faults) < MaxPending
        /\ ReportFault(fault, node_id)
    \/ FDSteps

FDNextFlood ==
    \/ \E fault \in ReportKinds :
        /\ BagCardinality(pending_faults) < FloodPending
        /\ ReportFault(fault, "bad_actor")
    \/ FDSteps
    \/ VerifyConsensusPanics

\* The records apply_penalties is handed on its own: reputations around the
\* decay of 10 and up to u8::MAX, stakes around the tenth and up to the
\* tests' 1000
PenaltyReputations == {0, 5, 9, 10, 15, 30, 50, U8Modulus - 1}
PenaltyStakes == {0, 1, 9, 10, 15, 500, 1000}

FDInitPenalty ==
    /\ \E reputation \in PenaltyReputations, stake \in PenaltyStakes :
         node_registry = [id \in {"bad_actor"} |-> NodeHealth(0, reputation, stake)]
    /\ pending_faults = EmptyBag
    /\ consensus_threshold = ThresholdOf(ConsensusRatioPercent)
    /\ instant = 0
    /\ monitor_pc = [at |-> "tick", next_tick |-> 0]
    /\ quarantine_calls = {}
    /\ fd_last = FdLast("new", "", "Ok", NoReports, node_registry)

\* FaultDetector::apply_penalties(node_id, registry), with its call of
\* quarantine_node
ApplyPenalties(node_id) ==
    /\ IF node_id \in DOMAIN node_registry
       THEN LET health == apply_penalties(node_registry[node_id])
            IN  /\ node_registry' = [node_registry EXCEPT ![node_id] = health]
                /\ quarantine_calls' =
                      IF health.reputation_score < QuarantineBelow
                      THEN quarantine_calls \cup {node_id}
                      ELSE quarantine_calls
       ELSE UNCHANGED <<node_registry, quarantine_calls>>
    /\ fd_last' = FdLast("apply_penalties", node_id, "Ok", NoReports, node_registry)
    /\ UNCHANGED <<pending_faults, consensus_threshold, instant, monitor_pc>>
    /\ UNCHANGED <<sched_vars, tm_vars, ts_vars>>

FDNextPenalty ==
    \E node_id \in {"bad_actor", UnknownNode} : ApplyPenalties(node_id)

(***************************************************************************)
(* fault_detector.rs with the pending-faults Mutex: verify_consensus holds *)
(* the guard from line 98 to its end, across the await of apply_penalties, *)
(* and report_fault waits for it.                                          *)
(***************************************************************************)
\* A report_fault that pushes without waiting for the Mutex
ReportFaultWithoutLock(fault, node_id) ==
    ReportFault(fault, node_id)

\* report_fault: self.pending_faults.lock().await, then the push
LockedReportFault(fault, node_id) ==
    /\ monitor_pc.at # "clear"
    /\ ReportFault(fault, node_id)

\* verify_consensus, lines 98-111: both locks, the counting loop and the
\* penalties; fault_counts lives on until the function returns
VerifyCountAndPenalise ==
    LET counts == fault_counts(pending_faults)
        hit == { id \in DOMAIN counts : counts[id] >= consensus_threshold }
        penalised == hit \cap DOMAIN node_registry
        registry == [id \in DOMAIN node_registry |->
                       IF id \in penalised THEN apply_penalties(node_registry[id])
                       ELSE node_registry[id]]
    IN  /\ monitor_pc.at = "verify_consensus"
        /\ node_registry' = registry
        /\ quarantine_calls' = quarantine_calls \cup
                { id \in penalised : registry[id].reputation_score < QuarantineBelow }
        /\ monitor_pc' = [at |-> "clear", next_tick |-> monitor_pc.next_tick,
                          fault_counts |-> counts, before |-> node_registry]
        /\ fd_last' = FdLast("await", "", "Ok", counts, node_registry)
        /\ UNCHANGED <<pending_faults, consensus_threshold, instant, sched_vars, tm_vars, ts_vars>>

\* verify_consensus, line 113: faults.clear(), and the guards dropped
VerifyClear ==
    /\ monitor_pc.at = "clear"
    /\ pending_faults' = EmptyBag
    /\ monitor_pc' = [at |-> "tick", next_tick |-> monitor_pc.next_tick]
    /\ fd_last' = FdLast("verify_consensus", "", "Ok", monitor_pc.fault_counts,
                         monitor_pc.before)
    /\ UNCHANGED <<node_registry, consensus_threshold, instant, quarantine_calls,
                   sched_vars, tm_vars, ts_vars>>

FDLockedNext ==
    \/ \E fault \in ReportKinds, node_id \in RegisteredNodes :
        /\ BagCardinality(pending_faults) < MaxPending
        /\ LockedReportFault(fault, node_id)
    \/ MonitorTick
    \/ CheckHeartbeats
    \/ VerifyCountAndPenalise
    \/ VerifyClear
    \/ FdClock

(***************************************************************************)
(* fault_detector.rs left to itself: the detection loop runs and nobody    *)
(* calls report_fault.                                                     *)
(***************************************************************************)
\* The ratios FaultDetector::new is given, in percent: thresholds 2, 6, 10
QuietRatios == {20, 60, 100}

\* Age in seconds of the heartbeat a node is registered with
QuietHeartbeatAges == {0, 300}

FDInitQuiet ==
    /\ \E bad_age, test_age \in QuietHeartbeatAges :
         node_registry = [id \in RegisteredNodes |->
                            IF id = "bad_actor" THEN NodeHealth(0 - bad_age, 30, 500)
                            ELSE NodeHealth(0 - test_age, 50, 1000)]
    /\ pending_faults = EmptyBag
    /\ \E ratio \in QuietRatios : consensus_threshold = ThresholdOf(ratio)
    /\ instant = 0
    /\ monitor_pc = [at |-> "tick", next_tick |-> 0]
    /\ quarantine_calls = {}
    /\ fd_last = FdLast("new", "", "Ok", NoReports, node_registry)

FDQuietNext ==
    \/ MonitorTick
    \/ CheckHeartbeats
    \/ VerifyConsensus
    \/ FdClock

(***************************************************************************)
(* task_state.rs                                                           *)
(*                                                                         *)
(* One TaskState account.  Only the fields the transitions read or write   *)
(* are kept: status, remaining_cu, verified_at and version.  version is a  *)
(* u64 that starts at 0 and grows by wrapping_add(1) on every accepted     *)
(* call; update_progress is capped at MaxVersion, far below the 2^64 calls *)
(* a wrap takes, so wrapping_add(1) is version + 1 throughout.             *)
(***************************************************************************)
MaxVersion == 4
MaxTimestamp == 2

Workers == {"worker1", "worker2"}
ResultHashes == {"hash1"}
ErrorCodes == {7}
RemainingCuChoices == {0, 1}

\* enum TaskStatus
Pending == [kind |-> "Pending"]
Running(worker, started_at, last_heartbeat) ==
    [kind |-> "Running", worker |-> worker, started_at |-> started_at,
     last_heartbeat |-> last_heartbeat]
Completed(result_hash, completed_at) ==
    [kind |-> "Completed", result_hash |-> result_hash, completed_at |-> completed_at]
Failed(error_code, failed_at) ==
    [kind |-> "Failed", error_code |-> error_code, failed_at |-> failed_at]
Cancelled(cancelled_at) == [kind |-> "Cancelled", cancelled_at |-> cancelled_at]

\* Option<i64>
None == [some |-> FALSE]
Some(v) == [some |-> TRUE, value |-> v]

\* What a transition returns, and the account as it leaves it.  clock is
\* Clock::get(): Some(unix_timestamp), or None when the sysvar is not
\* available.
TsOut(result, state) == [result |-> result, state |-> state]

\* TaskState::start
start(state, worker, clock) ==
    IF state.status.kind # "Pending" THEN TsOut("InvalidStateTransition", state)
    ELSE IF ~clock.some THEN TsOut("ClockError", state)
    ELSE TsOut("Ok", [state EXCEPT !.status = Running(worker, clock.value, clock.value),
                                   !.version = @ + 1])

\* An update_progress that records the heartbeat without counting the call
update_progress_keeping_version(state, remaining_cu, clock) ==
    IF state.status.kind # "Running" THEN TsOut("InvalidStateTransition", state)
    ELSE IF ~clock.some THEN TsOut("ClockError", state)
    ELSE TsOut("Ok", [state EXCEPT !.status.last_heartbeat = clock.value,
                                   !.remaining_cu = remaining_cu])

\* TaskState::update_progress
update_progress(state, remaining_cu, clock) ==
    IF state.status.kind # "Running" THEN TsOut("InvalidStateTransition", state)
    ELSE IF ~clock.some THEN TsOut("ClockError", state)
    ELSE TsOut("Ok", [state EXCEPT !.status.last_heartbeat = clock.value,
                                   !.remaining_cu = remaining_cu,
                                   !.version = @ + 1])

\* TaskState::complete
complete(state, result_hash, clock) ==
    IF state.status.kind # "Running" THEN TsOut("InvalidStateTransition", state)
    ELSE IF ~clock.some THEN TsOut("ClockError", state)
    ELSE TsOut("Ok", [state EXCEPT !.status = Completed(result_hash, clock.value),
                                   !.verified_at = Some(clock.value),
                                   !.version = @ + 1])

\* TaskState::fail
fail(state, error_code, clock) ==
    IF state.status.kind # "Running" THEN TsOut("InvalidStateTransition", state)
    ELSE IF ~clock.some THEN TsOut("ClockError", state)
    ELSE TsOut("Ok", [state EXCEPT !.status = Failed(error_code, clock.value),
                                   !.version = @ + 1])

\* TaskState::cancel
cancel(state, clock) ==
    IF state.status.kind # "Pending" THEN TsOut("InvalidStateTransition", state)
    ELSE IF ~clock.some THEN TsOut("ClockError", state)
    ELSE TsOut("Ok", [state EXCEPT !.status = Cancelled(clock.value),
                                   !.version = @ + 1])

TsLast(op, result) == [op |-> op, result |-> result]

\* TaskState::default()
TSNew ==
    /\ task_state = [status |-> Pending, remaining_cu |-> 0, verified_at |-> None,
                     version |-> 0]
    /\ unix_timestamp = 0
    /\ ts_last = TsLast("default", "Ok")

\* Clock::get() as a call sees it
ClockGet(clock_ok) == IF clock_ok THEN Some(unix_timestamp) ELSE None

\* An instruction that calls start on the account
Start(worker, clock_ok) ==
    /\ LET out == start(task_state, worker, ClockGet(clock_ok))
       IN  /\ task_state' = out.state
           /\ ts_last' = TsLast("start", out.result)
    /\ UNCHANGED <<unix_timestamp, sched_vars, tm_vars, fd_vars>>

\* An instruction that calls update_progress on the account
UpdateProgress(remaining_cu, clock_ok) ==
    /\ task_state.version < MaxVersion
    /\ LET out == update_progress(task_state, remaining_cu, ClockGet(clock_ok))
       IN  /\ task_state' = out.state
           /\ ts_last' = TsLast("update_progress", out.result)
    /\ UNCHANGED <<unix_timestamp, sched_vars, tm_vars, fd_vars>>

\* An instruction that calls complete on the account
Complete(result_hash, clock_ok) ==
    /\ LET out == complete(task_state, result_hash, ClockGet(clock_ok))
       IN  /\ task_state' = out.state
           /\ ts_last' = TsLast("complete", out.result)
    /\ UNCHANGED <<unix_timestamp, sched_vars, tm_vars, fd_vars>>

\* An instruction that calls fail on the account
Fail(error_code, clock_ok) ==
    /\ LET out == fail(task_state, error_code, ClockGet(clock_ok))
       IN  /\ task_state' = out.state
           /\ ts_last' = TsLast("fail", out.result)
    /\ UNCHANGED <<unix_timestamp, sched_vars, tm_vars, fd_vars>>

\* An instruction that calls cancel on the account
Cancel(clock_ok) ==
    /\ LET out == cancel(task_state, ClockGet(clock_ok))
       IN  /\ task_state' = out.state
           /\ ts_last' = TsLast("cancel", out.result)
    /\ UNCHANGED <<unix_timestamp, sched_vars, tm_vars, fd_vars>>

\* The cluster's clock advances between two instructions
TsClock ==
    /\ unix_timestamp < MaxTimestamp
    /\ unix_timestamp' = unix_timestamp + 1
    /\ ts_last' = TsLast("clock", "Ok")
    /\ UNCHANGED <<task_state, sched_vars, tm_vars, fd_vars>>

TSNext ==
    \/ \E worker \in Workers, clock_ok \in BOOLEAN : Start(worker, clock_ok)
    \/ \E remaining_cu \in RemainingCuChoices, clock_ok \in BOOLEAN :
          UpdateProgress(remaining_cu, clock_ok)
    \/ \E result_hash \in ResultHashes, clock_ok \in BOOLEAN : Complete(result_hash, clock_ok)
    \/ \E error_code \in ErrorCodes, clock_ok \in BOOLEAN : Fail(error_code, clock_ok)
    \/ \E clock_ok \in BOOLEAN : Cancel(clock_ok)
    \/ TsClock

(***************************************************************************)
(* Specifications                                                          *)
(***************************************************************************)
InitSched == SchedInit /\ TMNew /\ resource_pool = ResourcePool(<<>>, 0) /\ FDNew /\ TSNew
SpecSched == InitSched /\ [][SchedNext]_vars

InitF32 == SchedInit /\ TMNew /\ resource_pool = ResourcePool(<<>>, 0) /\ FDNew /\ TSNew
SpecF32 == InitF32 /\ [][F32Next]_vars

InitTS == TSNew /\ SchedInit /\ TMNew /\ resource_pool = ResourcePool(<<>>, 0) /\ FDNew
SpecTS == InitTS /\ [][TSNext]_vars

InitAlloc == SchedInit /\ TMNew /\ resource_pool = ResourcePool(<<>>, 0) /\ FDNew /\ TSNew
SpecAlloc == InitAlloc /\ [][AllocNext]_vars

InitTM == TMInit /\ SchedInit /\ FDNew /\ TSNew
SpecTM == InitTM /\ [][TMNext]_vars

\* schedule_tasks is a loop on a 5 s interval that never returns: a cycle that
\* can run does run
InitTMLive == TMInit /\ SchedInit /\ FDNew /\ TSNew
SpecTMLive == InitTMLive /\ [][TMLiveNext]_vars /\ WF_vars(ScheduleTasks)

InitTMLocked == TMInit /\ SchedInit /\ FDNew /\ TSNew
SpecTMLocked == InitTMLocked /\ [][TMLockedNext]_vars

InitFD == FDInit /\ SchedInit /\ TMNew /\ resource_pool = ResourcePool(<<>>, 0) /\ TSNew
SpecFD == InitFD /\ [][FDNext]_vars

InitFDFlood == FDInitFlood /\ SchedInit /\ TMNew /\ resource_pool = ResourcePool(<<>>, 0) /\ TSNew
SpecFDFlood == InitFDFlood /\ [][FDNextFlood]_vars

InitFDQuiet == FDInitQuiet /\ SchedInit /\ TMNew /\ resource_pool = ResourcePool(<<>>, 0) /\ TSNew
SpecFDQuiet == InitFDQuiet /\ [][FDQuietNext]_vars

InitFDLocked == FDInit /\ SchedInit /\ TMNew /\ resource_pool = ResourcePool(<<>>, 0) /\ TSNew
SpecFDLocked == InitFDLocked /\ [][FDLockedNext]_vars

InitPenalty == FDInitPenalty /\ SchedInit /\ TMNew /\ resource_pool = ResourcePool(<<>>, 0) /\ TSNew
SpecPenalty == InitPenalty /\ [][FDNextPenalty]_vars

(***************************************************************************)
(* Properties of the resource scheduler (SpecSched)                        *)
(***************************************************************************)
\* The feasibility predicate of the design: free memory, free cores,
\* bandwidth and fp16 support all suffice
Feasible(gpu, task) ==
    /\ gpu.total_memory - gpu.used_memory >= task.required_memory
    /\ FGe(FMul(FNat(gpu.cuda_cores), FOneMinus(gpu.current_utilization)),
           FNat(task.min_cuda_cores))
    /\ gpu.memory_bandwidth >= task.bandwidth_threshold
    /\ (task.fp16_required => gpu.fp16_support)

\* The fitness score of the design:
\* 0.5 * (used + required) / total + 0.3 * min_cores / cores + 0.2 * threshold / bandwidth
DesignScore(gpu, task) ==
    FAdd(FAdd(FMul(Frac(1, 2),
                   FDivNat(gpu.used_memory + task.required_memory, gpu.total_memory)),
              FMul(Frac(3, 10), FDivNat(task.min_cuda_cores, gpu.cuda_cores))),
         FMul(Frac(2, 10), FDivNat(task.bandwidth_threshold, gpu.memory_bandwidth)))

\* C1: every device of the pool has 0 <= used_memory <= total_memory and
\* 0 <= current_utilization <= 1, after any sequence of schedule_task,
\* add_gpu and remove_gpu calls.
C1_DeviceBounds ==
    \A id \in DOMAIN gpu_pool :
        /\ 0 <= gpu_pool[id].used_memory
        /\ gpu_pool[id].used_memory <= gpu_pool[id].total_memory
        /\ FGe(gpu_pool[id].current_utilization, FNat(0))
        /\ FGe(FNat(1), gpu_pool[id].current_utilization)

\* The two idle-or-half-used devices of test_best_fit_allocation: gpu1 with
\* half of its memory used, gpu2 unused, otherwise identical, both with cores
IsBestFitExample(pool, task) ==
    /\ DOMAIN pool = {"gpu1", "gpu2"}
    /\ pool["gpu1"] = [pool["gpu2"] EXCEPT !.id = "gpu1", !.used_memory = 2]
    /\ pool["gpu2"].used_memory = 0
    /\ pool["gpu2"].total_memory = MaxGpuMemory
    /\ pool["gpu2"].cuda_cores > 0
    /\ pool["gpu2"].current_utilization = FNat(0)
    /\ task.required_memory = 1
    /\ task.fp16_required
    /\ Feasible(pool["gpu1"], task)
    /\ Feasible(pool["gpu2"], task)

\* C9: under best-fit, a successful schedule_task places the task on a
\* feasible device whose design score is the lowest (no feasible device has
\* a lower one); with gpu1 16 GB used of 32 GB and gpu2 empty, an 8 GB fp16
\* task goes to gpu2.
C9_BestFitLowestScore ==
    [][(sched_last'.op = "schedule_task" /\ current_strategy = "best_fit"
          /\ sched_last'.result = "Ok") =>
        LET task == sched_last'.task
            chosen == gpu_pool[sched_last'.gpu_id]
        IN  /\ Feasible(chosen, task)
            /\ \A id \in DOMAIN gpu_pool :
                 Feasible(gpu_pool[id], task) =>
                    ~FGt(DesignScore(chosen, task), DesignScore(gpu_pool[id], task))
            /\ (IsBestFitExample(gpu_pool, task) => sched_last'.gpu_id = "gpu2")]_vars

\* C10: schedule_task returns InsufficientResource exactly when no device of
\* the pool is feasible for the task, and then leaves every device as it was.
C10_InsufficientIffInfeasible ==
    [][sched_last'.op \in {"schedule_task", "first_fit"} =>
        /\ (sched_last'.result = "InsufficientResource") <=>
                (\A id \in DOMAIN gpu_pool : ~Feasible(gpu_pool[id], sched_last'.task))
        /\ (sched_last'.result = "InsufficientResource" => gpu_pool' = gpu_pool)]_vars

\* C10 witness: a 40 GB task was refused on a pool of one 32 GB device
C10_Witness ==
    /\ sched_last.op \in {"schedule_task", "first_fit"}
    /\ sched_last.result = "InsufficientResource"
    /\ sched_last.task.required_memory = MaxGpuMemory + 1
    /\ \E id \in GpuIds :
        /\ DOMAIN gpu_pool = {id}
        /\ gpu_pool[id].total_memory = MaxGpuMemory
        /\ gpu_pool[id].used_memory = 0

(***************************************************************************)
(* Properties of the task manager (SpecTM)                                 *)
(***************************************************************************)
\* Sum of memory_gb over the tasks of a running set
RECURSIVE RunningMemory(_)
RunningMemory(running) ==
    IF DOMAIN running = {} THEN 0
    ELSE LET id == CHOOSE x \in DOMAIN running : TRUE
         IN  running[id].requirements.memory_gb + RunningMemory(MapRemove(running, id))

\* C2: total_memory_gb - available_memory_gb is the sum of memory_gb over
\* the running set, and 0 <= available_memory_gb <= total_memory_gb, in
\* every reachable state, failed ledger submissions included.
C2_MemoryAccounting ==
    /\ resource_pool.total_memory_gb - resource_pool.available_memory_gb
           = RunningMemory(running_tasks)
    /\ 0 <= resource_pool.available_memory_gb
    /\ resource_pool.available_memory_gb <= resource_pool.total_memory_gb

\* a is taken no later than b: higher priority first, then older first
TakenBefore(a, b) ==
    \/ a.priority > b.priority
    \/ a.priority = b.priority /\ a.created_at <= b.created_at

\* C3: a scheduling cycle takes the pending tasks in order of priority
\* descending, then created_at ascending: the tasks it started are in that
\* order, every task it left pending comes after them, and A(Low, 0),
\* B(High, 1), C(High, 0) are started as C, B, A.
C3_PriorityThenAge ==
    tm_last.op = "schedule_tasks" =>
        LET order == tm_last.order
        IN  /\ \A i, j \in DOMAIN order :
                 i < j => TakenBefore(running_tasks[order[i]], running_tasks[order[j]])
            /\ \A i \in DOMAIN order : \A t \in pending_queue :
                 TakenBefore(running_tasks[order[i]], t)
            /\ ({ order[i] : i \in DOMAIN order } = {"A", "B", "C"}
                  /\ running_tasks["A"].priority = Low
                  => order = <<"C", "B", "A">>)

\* C3 witness: a cycle started A(Low, 0), B(High, 1) and C(High, 0) together
C3_Witness ==
    /\ tm_last.op = "schedule_tasks"
    /\ tm_last.order = <<"C", "B", "A">>
    /\ running_tasks["A"].priority = Low
    /\ running_tasks["A"].created_at = 0
    /\ running_tasks["B"].created_at = 1
    /\ running_tasks["C"].created_at = 0

\* C4: complete_task for an id that is not in the running set, a second
\* completion of the same task included, returns TaskNotFound and leaves
\* the running set, the pending queue and the resource pool unchanged.
C4_UnknownCompletionIsNoOp ==
    [][(tm_last'.op = "complete_task"
          /\ (tm_last'.task_id \notin DOMAIN running_tasks
                \/ tm_last'.task_id \in completed)) =>
        /\ tm_last'.result = "TaskNotFound"
        /\ UNCHANGED <<running_tasks, pending_queue, resource_pool>>]_vars

\* C4 witness: a task that was completed is completed a second time, while
\* other tasks hold resources
C4_Witness ==
    /\ tm_last.op = "complete_task"
    /\ tm_last.result = "TaskNotFound"
    /\ tm_last.task_id \in completed
    /\ DOMAIN running_tasks # {}

\* C5: when the ledger submission of complete_task fails, the task stays in
\* the running set and the resource pool is as it was before the call.
C5_FailedSubmitChangesNothing ==
    [][(tm_last'.op = "complete_task" /\ tm_last'.result = "RpcError") =>
        /\ tm_last'.task_id \in DOMAIN running_tasks'
        /\ resource_pool' = resource_pool]_vars

\* Memory that reclaiming the tasks `ids` owes to device i
RECURSIVE OwedTo(_, _)
OwedTo(i, ids) ==
    IF ids = {} THEN 0
    ELSE LET id == CHOOSE x \in ids : TRUE
         IN  (IF i \in placement[id] THEN running_tasks[id].requirements.memory_gb ELSE 0)
                 + OwedTo(i, ids \ {id})

\* C6: reclaiming running tasks, by a completion or by a timeout sweep,
\* gives back on each device exactly what those tasks were allocated on it
\* and changes no other device (taken while no ledger submission has failed).
C6_ReclaimReturnsOwnDevices ==
    [][(rpc_failures = 0
          /\ \/ tm_last'.op = "complete_task" /\ tm_last'.result = "Ok"
             \/ tm_last'.op = "monitor_timeouts") =>
        LET reclaimed == DOMAIN running_tasks \ DOMAIN running_tasks'
        IN  \A i \in DOMAIN resource_pool.gpu_devices :
                resource_pool'.gpu_devices[i].memory_allocated
                    = resource_pool.gpu_devices[i].memory_allocated - OwedTo(i, reclaimed)]_vars

(***************************************************************************)
(* Properties of the fault detector (SpecFD, SpecFDFlood)                  *)
(***************************************************************************)
\* C7: in a detection cycle with threshold 6, a registered node with at
\* least 6 pending reports, however many, is penalised exactly once: its
\* stake goes down by a tenth (500 -> 450) and its reputation by 10
\* (30 -> 20).
C7_PenalisedOnceAtThreshold ==
    fd_last.op = "verify_consensus" =>
        \A id \in DOMAIN fd_last.before \cap DOMAIN fd_last.reports :
            fd_last.reports[id] >= consensus_threshold =>
                /\ node_registry[id].staked_tokens =
                       fd_last.before[id].staked_tokens
                           - fd_last.before[id].staked_tokens \div 10
                /\ node_registry[id].reputation_score =
                       Max(fd_last.before[id].reputation_score - ReputationDecay, 0)

\* C8: a detection cycle leaves a registered node with fewer pending
\* reports than the threshold as it was (stake, reputation, quarantine),
\* whatever it does to the other nodes.
C8_BelowThresholdUntouched ==
    [][fd_last'.op = "verify_consensus" =>
        \A id \in DOMAIN node_registry :
            Reports(pending_faults, id) < consensus_threshold =>
                /\ node_registry'[id] = node_registry[id]
                /\ (id \in quarantine_calls') = (id \in quarantine_calls)]_vars

\* C8 witness: a cycle with 5 reports against test_node and at least 6
\* against bad_actor penalised bad_actor and left test_node as it was
C8_Witness ==
    /\ fd_last.op = "verify_consensus"
    /\ fd_last.result = "Ok"
    /\ DOMAIN fd_last.reports = RegisteredNodes
    /\ fd_last.reports["test_node"] = consensus_threshold - 1
    /\ fd_last.reports["bad_actor"] >= consensus_threshold
    /\ node_registry["test_node"] = fd_last.before["test_node"]
    /\ node_registry["bad_actor"] # fd_last.before["bad_actor"]

\* The placement test of the design: enough devices with room for the
\* task's memory, and enough memory in the general pool
Placeable(requirements, pool) ==
    /\ Cardinality({ i \in DOMAIN pool.gpu_devices :
                       pool.gpu_devices[i].total_memory
                           - pool.gpu_devices[i].memory_allocated
                         >= requirements.memory_gb }) >= requirements.gpu_count
    /\ pool.available_memory_gb >= requirements.memory_gb

\* Sum of memory_gb over the tasks listed in `order`, looked up in `running`
RECURSIVE StartedMemory(_, _)
StartedMemory(order, running) ==
    IF order = <<>> THEN 0
    ELSE running[Head(order)].requirements.memory_gb + StartedMemory(Tail(order), running)

\* C11: when a scheduling cycle meets a task it cannot place, the cycle
\* ends there: that task is back in the pending queue at its head, every
\* task started in the cycle comes before it in the order, no task after it
\* was started even if it would fit, and the pool is as the started tasks
\* left it (in which the head still cannot be placed).
C11_HeadOfLineBlocks ==
    [][(tm_last'.op = "schedule_tasks" /\ pending_queue' # {}) =>
        LET order == tm_last'.order
            started == { order[i] : i \in DOMAIN order }
        IN  /\ pending_queue' \subseteq pending_queue
            /\ \A t \in pending_queue' : t.task_id \notin started
            /\ \E h \in pending_queue' :
                /\ \A u \in pending_queue' : TakenBefore(h, u)
                /\ \A i \in DOMAIN order : TakenBefore(running_tasks'[order[i]], h)
                /\ ~Placeable(h.requirements, resource_pool')
            /\ resource_pool'.available_memory_gb =
                   resource_pool.available_memory_gb - StartedMemory(order, running_tasks')]_vars

\* C11 witness: a cycle stopped at a task it could not place while a task
\* after it in the order, left pending, would fit in the pool
C11_Witness ==
    /\ tm_last.op = "schedule_tasks"
    /\ \E h, t \in pending_queue :
        /\ h # t
        /\ \A u \in pending_queue : TakenBefore(h, u)
        /\ ~TakenBefore(t, h)
        /\ ~Placeable(h.requirements, resource_pool)
        /\ Placeable(t.requirements, resource_pool)

\* The ids of the tasks of a pending queue
PendingIds(queue) == { t.task_id : t \in queue }

\* C12: no task id is at once in the pending queue and in the running set,
\* and a task's requirements are reserved at most once: a cycle starts only
\* tasks that were pending and not running, each once, takes them out of
\* the queue and reserves their memory once; an id enters the queue only
\* when it is submitted, once; no other operation reserves anything.
C12_NeverScheduledTwice ==
    [][/\ PendingIds(pending_queue') \cap DOMAIN running_tasks' = {}
       /\ (PendingIds(pending_queue') \ PendingIds(pending_queue)) \cap submitted = {}
       /\ DOMAIN running_tasks' \subseteq submitted'
       /\ IF tm_last'.op = "schedule_tasks"
          THEN LET order == tm_last'.order
               IN  /\ \A i, j \in DOMAIN order : i # j => order[i] # order[j]
                   /\ \A i \in DOMAIN order :
                        /\ order[i] \in PendingIds(pending_queue)
                        /\ order[i] \notin PendingIds(pending_queue')
                        /\ order[i] \notin DOMAIN running_tasks
                        /\ order[i] \in DOMAIN running_tasks'
                   /\ resource_pool'.available_memory_gb =
                          resource_pool.available_memory_gb
                              - StartedMemory(order, running_tasks')
          ELSE /\ DOMAIN running_tasks' \subseteq DOMAIN running_tasks
               /\ resource_pool'.available_memory_gb >= resource_pool.available_memory_gb
               /\ \A i \in DOMAIN resource_pool.gpu_devices :
                    resource_pool'.gpu_devices[i].memory_allocated
                        <= resource_pool.gpu_devices[i].memory_allocated]_vars

\* C12 witness: a cycle started a task while another task was running and
\* tasks had been completed before
C12_Witness ==
    /\ tm_last.op = "schedule_tasks"
    /\ Len(tm_last.order) >= 1
    /\ Cardinality(DOMAIN running_tasks) > Len(tm_last.order)
    /\ completed # {}

\* C13: a scheduling cycle drops no task and reports no error: a task leaves
\* the pending queue and the running set together only by a successful
\* complete_task for it or by a timeout sweep that lists it, and add_task
\* and the cycle return Ok.
C13_NeverDropped ==
    [][LET held == PendingIds(pending_queue) \cup DOMAIN running_tasks
           held_after == PendingIds(pending_queue') \cup DOMAIN running_tasks'
           gone == held \ held_after
       IN  /\ tm_last'.op \in {"schedule_tasks", "add_task"} =>
                 /\ gone = {}
                 /\ tm_last'.result = "Ok"
           /\ tm_last'.op = "complete_task" =>
                 gone \subseteq (IF tm_last'.result = "Ok" THEN {tm_last'.task_id} ELSE {})
           /\ tm_last'.op = "monitor_timeouts" =>
                 gone \subseteq { tm_last'.order[i] : i \in DOMAIN tm_last'.order }
           /\ tm_last'.op = "tick" => gone = {}
           /\ submitted' = submitted \cup PendingIds(pending_queue')]_vars

\* C13 witness: a cycle left a task pending that the devices have no room
\* for although the general memory would suffice
C13_Witness ==
    /\ tm_last.op = "schedule_tasks"
    /\ DOMAIN running_tasks # {}
    /\ \E t \in pending_queue :
        /\ ~Placeable(t.requirements, resource_pool)
        /\ t.requirements.memory_gb <= resource_pool.available_memory_gb

\* C14: a node that a penalty left with a reputation below 20 is
\* quarantined, and its health record says so from then on.
C14_QuarantineRecorded ==
    \A id \in DOMAIN node_registry :
        id \in quarantine_calls =>
            /\ "quarantined" \in DOMAIN node_registry[id]
            /\ node_registry[id].quarantined

\* C15: a detection cycle that runs to its end leaves the pending fault
\* list empty, and it penalises a node only for the reports of that cycle:
\* a node whose record changes has at least threshold entries in the list
\* the cycle started with, and report_fault and check_heartbeats change no
\* record.
C15_NoCarryOver ==
    [][/\ (fd_last'.op = "verify_consensus" /\ fd_last'.result = "Ok") =>
            /\ pending_faults' = EmptyBag
            /\ \A id \in DOMAIN node_registry :
                 node_registry'[id] # node_registry[id] =>
                    Reports(pending_faults, id) >= consensus_threshold
       /\ fd_last'.op # "verify_consensus" => node_registry' = node_registry]_vars

\* C15 witness: the second cycle ended with test_node never penalised
\* although it had 5 reports in this cycle and at least one, from its stale
\* heartbeat, in the cycle before
C15_Witness ==
    /\ fd_last.op = "verify_consensus"
    /\ fd_last.result = "Ok"
    /\ monitor_pc.next_tick = 2 * MonitorIntervalSecs
    /\ pending_faults = EmptyBag
    /\ "test_node" \in DOMAIN fd_last.reports
    /\ fd_last.reports["test_node"] = consensus_threshold - 1
    /\ node_registry["test_node"] = NodeHealth(0 - 300, 50, 1000)

\* C17: every task held in the running set has state Running.
C17_RunningTasksAreRunning ==
    \A id \in DOMAIN running_tasks : running_tasks[id].state = "Running"

\* C18: a timeout sweep removes exactly the running tasks with
\* now - updated_at > timeout_secs and gives back, on each device, exactly
\* what those tasks were allocated on it, so that the tasks that stay keep
\* their allocations (taken while no ledger submission has failed).
C18_SweepReclaimsExactlyExpired ==
    [][(tm_last'.op = "monitor_timeouts" /\ rpc_failures = 0) =>
        LET expired == { id \in DOMAIN running_tasks :
                           now - running_tasks[id].updated_at
                               > running_tasks[id].requirements.timeout_secs }
        IN  /\ DOMAIN running_tasks' = DOMAIN running_tasks \ expired
            /\ \A id \in DOMAIN running_tasks' : running_tasks'[id] = running_tasks[id]
            /\ \A i \in DOMAIN resource_pool.gpu_devices :
                 resource_pool'.gpu_devices[i].memory_allocated
                     = resource_pool.gpu_devices[i].memory_allocated - OwedTo(i, expired)]_vars

\* C19: the device a successful schedule_task returns, under either
\* strategy, met all four feasibility conditions in the pool just before
\* the call.
C19_ChosenDeviceWasFeasible ==
    [][(sched_last'.op \in {"schedule_task", "first_fit"} /\ sched_last'.result = "Ok") =>
        /\ sched_last'.gpu_id \in DOMAIN gpu_pool
        /\ Feasible(gpu_pool[sched_last'.gpu_id], sched_last'.task)]_vars

\* C19 witness: an fp16 task with a core demand was placed on one of two
\* devices, the other of which has no fp16 support
C19_Witness ==
    /\ sched_last.op \in {"schedule_task", "first_fit"}
    /\ sched_last.result = "Ok"
    /\ sched_last.task.fp16_required
    /\ sched_last.task.min_cuda_cores > 0
    /\ DOMAIN gpu_pool = GpuIds
    /\ gpu_pool[sched_last.gpu_id].fp16_support
    /\ \E other \in GpuIds \ {sched_last.gpu_id} : ~gpu_pool[other].fp16_support

\* C20: a successful schedule_task changes the returned device only: its
\* used_memory grows by required_memory and its current_utilization by
\* min_cuda_cores / cuda_cores; every other device is as it was.
C20_OnlyChosenDeviceChanges ==
    [][(sched_last'.op \in {"schedule_task", "first_fit"} /\ sched_last'.result = "Ok") =>
        LET id == sched_last'.gpu_id
            task == sched_last'.task
        IN  /\ DOMAIN gpu_pool' = DOMAIN gpu_pool
            /\ \A other \in DOMAIN gpu_pool \ {id} : gpu_pool'[other] = gpu_pool[other]
            /\ gpu_pool'[id] =
                 [gpu_pool[id] EXCEPT
                    !.used_memory = @ + task.required_memory,
                    !.current_utilization =
                        FAdd(@, FDivNat(task.min_cuda_cores, gpu_pool[id].cuda_cores))]]_vars

\* C20 witness: a task with a core demand was placed on a device of a
\* two-device pool that already carried load
C20_Witness ==
    /\ sched_last.op \in {"schedule_task", "first_fit"}
    /\ sched_last.result = "Ok"
    /\ sched_last.task.min_cuda_cores > 0
    /\ DOMAIN gpu_pool = GpuIds
    /\ gpu_pool[sched_last.gpu_id].used_memory > sched_last.task.required_memory
    /\ FGt(gpu_pool[sched_last.gpu_id].current_utilization, FNat(0))

\* C16: while submit_result is in progress inside complete_task, neither
\* the running-set lock nor the resource-pool lock is held by it.
C16_NoLockAcrossSubmit ==
    At("complete_task", "submit_result") =>
        /\ locks["running_tasks"] # "complete_task"
        /\ locks["resource_pool"] # "complete_task"

(***************************************************************************)
(* Properties of allocate_resources (SpecAlloc)                            *)
(***************************************************************************)
\* C21: allocate_resources returns ResourceConflict when used_memory +
\* required_memory would exceed total_memory and SchedulerOverload when the
\* new utilization would exceed 1.0, returns them in no other case, and
\* leaves the device as it was whenever it returns either error.
C21_ErrorsBeforeCommit ==
    [][sched_last'.op = "allocate_resources" =>
        LET gpu == gpu_pool[sched_last'.gpu_id]
            task == sched_last'.task
            over_memory == gpu.used_memory + task.required_memory > gpu.total_memory
            over_utilization ==
                FGt(FAdd(gpu.current_utilization,
                         FDivNat(task.min_cuda_cores, gpu.cuda_cores)), FNat(1))
        IN  /\ over_memory => sched_last'.result = "ResourceConflict"
            /\ (over_utilization /\ ~over_memory) => sched_last'.result = "SchedulerOverload"
            /\ sched_last'.result = "ResourceConflict" => over_memory
            /\ sched_last'.result = "SchedulerOverload" => over_utilization
            /\ sched_last'.result # "Ok" => gpu_pool' = gpu_pool]_vars

\* C21 witness: a device that had room for the task's memory refused it with
\* SchedulerOverload after earlier allocations had used up its cores
C21_Witness ==
    /\ sched_last.op = "allocate_resources"
    /\ sched_last.result = "SchedulerOverload"
    /\ LET gpu == gpu_pool[sched_last.gpu_id]
       IN  /\ gpu.used_memory > 0
           /\ gpu.used_memory + sched_last.task.required_memory <= gpu.total_memory
           /\ gpu.current_utilization = FNat(1)

(***************************************************************************)
(* Further properties of the task manager (SpecTM)                         *)
(***************************************************************************)
\* C22: a release for requirements that no device holds (every device has
\* less memory allocated than the release gives back, as at the second
\* release of one task) changes neither a device nor available_memory_gb,
\* and every counter stays between zero and its total.
C22_ReleaseOfUnheldIsNoOp ==
    [][/\ (/\ tm_last'.op = "complete_task"
           /\ tm_last'.result # "TaskNotFound"
           /\ \A i \in DOMAIN resource_pool.gpu_devices :
                resource_pool.gpu_devices[i].memory_allocated
                    < running_tasks[tm_last'.task_id].requirements.memory_gb)
          => resource_pool' = resource_pool
       /\ 0 <= resource_pool'.available_memory_gb
       /\ resource_pool'.available_memory_gb <= resource_pool'.total_memory_gb
       /\ \A i \in DOMAIN resource_pool'.gpu_devices :
            /\ 0 <= resource_pool'.gpu_devices[i].memory_allocated
            /\ resource_pool'.gpu_devices[i].memory_allocated
                   <= resource_pool'.gpu_devices[i].total_memory]_vars

(***************************************************************************)
(* Further properties of the resource scheduler (SpecSched)                *)
(***************************************************************************)
\* C23: remove_gpu on a device of the pool whose used_memory or
\* current_utilization is not zero does not remove it: the pool stays as it
\* was.
C23_BusyDeviceIsNotRemoved ==
    [][(/\ sched_last'.op = "remove_gpu"
        /\ sched_last'.gpu_id \in DOMAIN gpu_pool
        /\ \/ gpu_pool[sched_last'.gpu_id].used_memory # 0
           \/ gpu_pool[sched_last'.gpu_id].current_utilization # FNat(0))
        => gpu_pool' = gpu_pool]_vars

(***************************************************************************)
(* Further properties of the fault detector (SpecFD)                       *)
(***************************************************************************)
\* C24: check_heartbeats appends exactly one ByzantineBehavior entry for
\* every registered node whose last heartbeat is more than 120 s old, none
\* for a node whose heartbeat is 120 s old or younger, no other entry, and
\* leaves the node registry as it was.
C24_OneImplicitFaultPerStaleNode ==
    [][fd_last'.op = "check_heartbeats" =>
        /\ node_registry' = node_registry
        /\ \A id \in DOMAIN node_registry :
             CopiesIn(<<"ByzantineBehavior", id>>, pending_faults')
               = CopiesIn(<<"ByzantineBehavior", id>>, pending_faults)
                   + (IF instant - node_registry[id].last_heartbeat > HeartbeatTimeoutSecs
                      THEN 1 ELSE 0)
        /\ BagCardinality(pending_faults')
             = BagCardinality(pending_faults)
                 + Cardinality({ id \in DOMAIN node_registry :
                       instant - node_registry[id].last_heartbeat > HeartbeatTimeoutSecs })]_vars

\* C24 witness: a check found test_node's heartbeat too old and bad_actor's
\* exactly 120 s old, and appended an entry for test_node only
C24_Witness ==
    /\ fd_last.op = "check_heartbeats"
    /\ instant - node_registry["bad_actor"].last_heartbeat = HeartbeatTimeoutSecs
    /\ instant - node_registry["test_node"].last_heartbeat > HeartbeatTimeoutSecs
    /\ Reports(pending_faults, "test_node") = 1
    /\ Reports(pending_faults, "bad_actor") = 0

(***************************************************************************)
(* Properties of apply_penalties (SpecPenalty)                             *)
(***************************************************************************)
\* C25: a penalty never takes stake or reputation below zero and never
\* wraps them around: both stay within [0, value before], the reputation
\* goes down by 10 or to 0 when it was below 10, the stake goes down by its
\* tenth, and a stake of 0 stays 0.
C25_PenaltiesSaturate ==
    [][(fd_last'.op = "apply_penalties" /\ fd_last'.node_id \in DOMAIN node_registry) =>
        LET before == node_registry[fd_last'.node_id]
            after == node_registry'[fd_last'.node_id]
        IN  /\ 0 <= after.reputation_score
            /\ after.reputation_score <= before.reputation_score
            /\ 0 <= after.staked_tokens
            /\ after.staked_tokens <= before.staked_tokens
            /\ after.reputation_score =
                  IF before.reputation_score < ReputationDecay THEN 0
                  ELSE before.reputation_score - ReputationDecay
            /\ after.staked_tokens
                  = before.staked_tokens - before.staked_tokens \div 10
            /\ (before.staked_tokens = 0 => after.staked_tokens = 0)]_vars

\* C25 witness: a node with reputation 5 and stake 0 was penalised and is at
\* reputation 0 and stake 0
C25_Witness ==
    /\ fd_last.op = "apply_penalties"
    /\ fd_last.node_id \in DOMAIN fd_last.before
    /\ fd_last.before[fd_last.node_id].reputation_score = 5
    /\ fd_last.before[fd_last.node_id].staked_tokens = 0
    /\ node_registry[fd_last.node_id].reputation_score = 0
    /\ node_registry[fd_last.node_id].staked_tokens = 0

\* C26: report_fault returns Ok for a registered and for an unregistered
\* node id alike, adds exactly one (fault kind, node id) entry to the
\* pending fault list and leaves the node registry, the threshold and the
\* quarantine record as they were.
C26_ReportOnlyAppends ==
    [][fd_last'.op = "report_fault" =>
        /\ fd_last'.result = "Ok"
        /\ \E fault \in ReportKinds :
             pending_faults' = pending_faults (+) SetToBag({<<fault, fd_last'.node_id>>})
        /\ BagCardinality(pending_faults') = BagCardinality(pending_faults) + 1
        /\ UNCHANGED <<node_registry, consensus_threshold, quarantine_calls, monitor_pc>>]_vars

\* C26 witness: a fault was reported against an id that is not in the
\* registry and is pending
C26_Witness ==
    /\ fd_last.op = "report_fault"
    /\ fd_last.result = "Ok"
    /\ fd_last.node_id = UnknownNode
    /\ UnknownNode \notin DOMAIN node_registry
    /\ Reports(pending_faults, UnknownNode) = 1
    /\ BagCardinality(pending_faults) > 1

\* C27: a detection cycle in which an id that is not in the registry has
\* reports at or above the threshold still penalises every registered node
\* whose reports reach the threshold (stake down by a tenth, reputation down
\* by 10 or to 0), leaves the other registered nodes alone and clears the
\* pending list.
C27_UnknownNodeDoesNotBlockCycle ==
    [][(/\ fd_last'.op = "verify_consensus"
        /\ \E id \in ReportedNodes(pending_faults) \ DOMAIN node_registry :
             Reports(pending_faults, id) >= consensus_threshold) =>
        /\ pending_faults' = EmptyBag
        /\ DOMAIN node_registry' = DOMAIN node_registry
        /\ \A id \in DOMAIN node_registry :
             IF Reports(pending_faults, id) >= consensus_threshold
             THEN /\ node_registry'[id].staked_tokens
                        = node_registry[id].staked_tokens
                            - node_registry[id].staked_tokens \div 10
                  /\ node_registry'[id].reputation_score
                        = Max(node_registry[id].reputation_score - ReputationDecay, 0)
             ELSE node_registry'[id] = node_registry[id]]_vars

\* C27 witness: a cycle with the threshold reached both by an unregistered
\* id and by bad_actor penalised bad_actor and cleared the list
C27_Witness ==
    /\ fd_last.op = "verify_consensus"
    /\ {UnknownNode, "bad_actor"} \subseteq DOMAIN fd_last.reports
    /\ fd_last.reports[UnknownNode] >= consensus_threshold
    /\ fd_last.reports["bad_actor"] >= consensus_threshold
    /\ UnknownNode \notin DOMAIN node_registry
    /\ node_registry["bad_actor"].staked_tokens
          < fd_last.before["bad_actor"].staked_tokens
    /\ pending_faults = EmptyBag

(***************************************************************************)
(* Further properties of the task manager (SpecTM)                         *)
(***************************************************************************)
\* C28: add_task returns Ok whether or not the pool can hold the task; the
\* pending queue gains the submitted task and nothing else, and the running
\* set and the resource pool are as they were.
C28_AddTaskOnlyInserts ==
    [][tm_last'.op = "add_task" =>
        /\ tm_last'.result = "Ok"
        /\ \E task \in NewTasks :
             /\ task.task_id = tm_last'.task_id
             /\ task \notin pending_queue
             /\ pending_queue' = pending_queue \cup {task}
        /\ UNCHANGED <<running_tasks, resource_pool>>]_vars

\* C28 witness: a task that the pool cannot hold was submitted and is
\* pending, next to a task that is running
C28_Witness ==
    /\ tm_last.op = "add_task"
    /\ tm_last.result = "Ok"
    /\ DOMAIN running_tasks # {}
    /\ \E task \in pending_queue :
         /\ task.task_id = tm_last.task_id
         /\ ~can_allocate(task.requirements, resource_pool)

HeadAndAllocatable(id) ==
    \E task \in pending_queue :
        /\ task.task_id = id
        /\ HeapPop(pending_queue) = {task}
        /\ can_allocate(task.requirements, resource_pool)

\* C30: a pending task is tried again in every scheduling cycle: a cycle
\* that finds the task at the head of the queue with a pool that can hold it
\* moves it to the running set, and, cycles running for ever, a task that
\* from some point on is at the head with a pool that can hold it is
\* eventually running.
C30_PendingTaskIsRetried ==
    /\ [][tm_last'.op = "schedule_tasks" =>
            \A id \in TaskIds :
                HeadAndAllocatable(id) =>
                    /\ id \in DOMAIN running_tasks'
                    /\ id \notin PendingIds(pending_queue')]_vars
    /\ \A id \in TaskIds :
         <>[]HeadAndAllocatable(id) => <>(id \in DOMAIN running_tasks)

\* C30 witness: a cycle started a task after an earlier task had completed
\* and given its resources back, and left nothing pending
C30_Witness ==
    /\ tm_last.op = "schedule_tasks"
    /\ Len(tm_last.order) = 1
    /\ completed # {}
    /\ pending_queue = {}
    /\ running_tasks[tm_last.order[1]].requirements.memory_gb = MaxMemoryGb

(***************************************************************************)
(* Further properties of the locking (SpecTMLocked)                        *)
(***************************************************************************)
\* The lock an operation is suspended on, "none" when it is not waiting
\* for a lock
WaitsFor(op) ==
    IF tm_pc[op].at = "lock_resources" THEN "resource_pool"
    ELSE IF tm_pc[op].at = "lock_running" THEN "running_tasks"
    ELSE "none"

\* C31: the task manager never deadlocks: in no reachable state do two of
\* its operations each hold a lock and wait for a lock that the other
\* holds.
C31_NoDeadlock ==
    ~ \E p, q \in Operations :
        /\ p # q
        /\ WaitsFor(p) # "none"
        /\ WaitsFor(q) # "none"
        /\ locks[WaitsFor(p)] = q
        /\ locks[WaitsFor(q)] = p

(***************************************************************************)
(* Further properties of the fault detector (SpecFDFlood, SpecFD)          *)
(***************************************************************************)
\* C32: the count that a detection cycle computes for a node is the number
\* of pending reports against it, however many there are: the cycle does
\* not abort, the counter does not wrap, and a registered node with at least
\* threshold reports is penalised.
C32_CountIsTrueCount ==
    [][fd_last'.op = "verify_consensus" =>
        /\ fd_last'.result = "Ok"
        /\ \A id \in ReportedNodes(pending_faults) :
             /\ fault_counts(pending_faults)[id] = Reports(pending_faults, id)
             /\ (id \in DOMAIN node_registry
                   /\ Reports(pending_faults, id) >= consensus_threshold)
                  => node_registry'[id].reputation_score
                        = Max(node_registry[id].reputation_score - ReputationDecay, 0)]_vars

(***************************************************************************)
(* Further properties of the task manager (SpecTM)                         *)
(***************************************************************************)
\* C33: a task's timeout runs from its placement: a sweep that runs right
\* after the scheduling cycle that placed a task, at the same clock value,
\* does not reclaim that task (its timeout_secs being positive), however
\* long the task had been pending.
C33_TimeoutRunsFromPlacement ==
    [][(tm_last.op = "schedule_tasks" /\ tm_last'.op = "monitor_timeouts") =>
        \A i \in DOMAIN tm_last.order :
            running_tasks[tm_last.order[i]].requirements.timeout_secs > 0
                => tm_last.order[i] \in DOMAIN running_tasks']_vars

(***************************************************************************)
(* Properties of the fault detector's locking (SpecFDLocked)               *)
(***************************************************************************)
\* C34: every reported fault is counted in exactly one cycle: what a cycle
\* clears is what it counted, node by node, nothing is left pending after
\* the clear, and no other step takes an entry out of the pending list.
C34_CountedExactlyOnce ==
    [][IF fd_last'.op = "verify_consensus"
       THEN /\ pending_faults' = EmptyBag
            /\ ReportedNodes(pending_faults) = DOMAIN fd_last'.reports
            /\ \A id \in ReportedNodes(pending_faults) :
                 Reports(pending_faults, id) = fd_last'.reports[id]
       ELSE \A e \in BagToSet(pending_faults) :
                CopiesIn(e, pending_faults') >= CopiesIn(e, pending_faults)]_vars

\* C34 witness: a cycle counted and cleared reports against bad_actor that
\* came in from outside next to test_node's implicit one
C34_Witness ==
    /\ fd_last.op = "verify_consensus"
    /\ DOMAIN fd_last.reports = {"bad_actor", "test_node"}
    /\ fd_last.reports["bad_actor"] > 1
    /\ fd_last.reports["test_node"] > 1
    /\ pending_faults = EmptyBag

(***************************************************************************)
(* Properties of the unattended detection loop (SpecFDQuiet)               *)
(***************************************************************************)
\* C35: with a threshold of 2 or more and no report from outside, a cycle
\* finds at most one pending fault against a node, the implicit one of a
\* heartbeat that was too old, and no cycle, however many run, changes a
\* node's record: a silent node is never penalised.
C35_SilentNodeNeverPenalised ==
    [][consensus_threshold >= 2 =>
        /\ node_registry' = node_registry
        /\ quarantine_calls' = quarantine_calls
        /\ (fd_last'.op = "verify_consensus" =>
              /\ ReportedNodes(pending_faults) \subseteq DOMAIN node_registry
              /\ \A id \in ReportedNodes(pending_faults) :
                    /\ Reports(pending_faults, id) = 1
                    /\ instant - node_registry[id].last_heartbeat > HeartbeatTimeoutSecs)]_vars

\* C35 witness: with threshold 2, the sixth cycle in a row has counted one
\* fault against test_node, silent for 450 s, and test_node still has its
\* stake and reputation
C35_Witness ==
    /\ fd_last.op = "verify_consensus"
    /\ consensus_threshold = 2
    /\ instant - node_registry["test_node"].last_heartbeat = 450
    /\ monitor_pc.next_tick = 6 * MonitorIntervalSecs
    /\ fd_last.reports["test_node"] = 1
    /\ node_registry["test_node"] = NodeHealth(0 - 300, 50, 1000)

(***************************************************************************)
(* Feasibility and commit (f32 arithmetic)                                 *)
(***************************************************************************)
\* C36: on a pool whose devices all satisfy the bounds, a device that passes
\* the feasibility predicate is always allocated, so schedule_task returns
\* Ok or InsufficientResource and never ResourceConflict or
\* SchedulerOverload.
C36_FeasibleImpliesCommit ==
    [][(/\ sched_last'.op = "schedule_task"
        /\ current_strategy \in StrategyNames
        /\ \A id \in DOMAIN gpu_pool :
              /\ gpu_pool[id].used_memory <= gpu_pool[id].total_memory
              /\ FGe(gpu_pool[id].current_utilization, FNat(0))
              /\ FGe(FNat(1), gpu_pool[id].current_utilization))
           => sched_last'.result \in {"Ok", "InsufficientResource"}]_vars

(***************************************************************************)
(* Determinism of best-fit                                                 *)
(***************************************************************************)
\* C37: under best_fit the device schedule_task returns is a function of the
\* task and of the devices' states: every order in which the pool may be
\* iterated gives the same device, and a device chosen among feasible ones
\* of equal score is the one the ids single out (the greatest id).
C37_BestFitIsDeterministic ==
    [][(sched_last'.op = "schedule_task" /\ current_strategy = "best_fit") =>
          /\ \A out \in BestFitWithScoring_schedule(sched_last'.task, gpu_pool) :
                out.gpu_id = sched_last'.gpu_id
          /\ \A id \in DOMAIN gpu_pool :
                (/\ sched_last'.result = "Ok"
                 /\ id # sched_last'.gpu_id
                 /\ meets_task_requirements(gpu_pool[id], sched_last'.task)
                 /\ FEq(calculate_fitness_score(gpu_pool[id], sched_last'.task),
                        calculate_fitness_score(gpu_pool[sched_last'.gpu_id],
                                                sched_last'.task)))
                    => IdRank(sched_last'.gpu_id) > IdRank(id)]_vars

(***************************************************************************)
(* Transitions of the TaskState account                                    *)
(***************************************************************************)
TaskOps == {"start", "update_progress", "complete", "fail", "cancel"}

\* The status a call needs, and the status an accepted call leaves
RequiredStatus(op) == IF op \in {"start", "cancel"} THEN "Pending" ELSE "Running"
TargetStatus(op) ==
    CASE op = "start" -> "Running"
      [] op = "update_progress" -> "Running"
      [] op = "complete" -> "Completed"
      [] op = "fail" -> "Failed"
      [] op = "cancel" -> "Cancelled"

\* C38: start and cancel are accepted only from Pending, update_progress,
\* complete and fail only from Running; a call made from any other status,
\* Completed, Failed and Cancelled included, returns InvalidStateTransition;
\* a call that is not accepted leaves status and version as they were; an
\* accepted call leaves the status of its transition and version + 1.
C38_GuardedTransitions ==
    [][ts_last'.op \in TaskOps =>
          LET op == ts_last'.op
              result == ts_last'.result
              kind == task_state.status.kind
          IN  /\ result = "Ok" =>
                    /\ kind = RequiredStatus(op)
                    /\ task_state'.status.kind = TargetStatus(op)
                    /\ task_state'.version = task_state.version + 1
              /\ kind # RequiredStatus(op) => result = "InvalidStateTransition"
              /\ result = "InvalidStateTransition" => kind # RequiredStatus(op)
              /\ result # "Ok" =>
                    /\ task_state'.status = task_state.status
                    /\ task_state'.version = task_state.version
              /\ kind \in {"Completed", "Failed", "Cancelled"} =>
                    task_state' = task_state]_vars

\* A completed account, after start, progress reports up to the cap and
\* complete were accepted, has just rejected a further call
C38_Witness ==
    /\ ts_last.op \in TaskOps
    /\ ts_last.result = "InvalidStateTransition"
    /\ task_state.status.kind = "Completed"
    /\ task_state.version = MaxVersion + 1
    /\ task_state.verified_at = Some(task_state.status.completed_at)

====
